---- MODULE Spec2Model ----
(***************************************************************************)
(* Model of the OpsAiX detection / analysis result pipeline                *)
(* (src/src/agents, src/src/models).                                       *)
(*                                                                         *)
(* Python values are tagged records, one field name per Python type, so    *)
(* that values of different types are never equal:                         *)
(*   PyBool(b), PyNum(n), PyStr(s), PyList(l), PyDict(o), PyNone.          *)
(* A number n stands for the float n/100 (0.42 is 42, -0.5 is -50).        *)
(*                                                                         *)
(* A text is a sequence of lexical units.  The characters a fence marker   *)
(* is made of and the JSON punctuation are single characters (Ch); a JSON  *)
(* string literal, a number literal and a bare word are one unit each.     *)
(* The only slices the code takes, [7:] and [:-3], are guarded by           *)
(* startswith(FenceJson) and endswith(Fence), so they only ever remove     *)
(* single-character units.                                                 *)
(***************************************************************************)
EXTENDS Integers, Sequences, FiniteSets, TLC

VARIABLES
    fn,          \* harness: the pure function under test ("none" when idle)
    arg,         \* harness: its argument
    ret,         \* harness: its outcome, NotCalled until it has been applied
    agent,       \* process(): which agent runs ("none" before the call)
    pc,          \* process(): the stage the call is at
    input_data,  \* process(): the caller's input
    context,     \* process(): the caller's context
    response,    \* process(): the outcome of the model call
    result,      \* process(): the validated detection / analysis result
    incident,    \* process(): the Incident built, NoIncident if none
    envelope,    \* process(): what the call returned, NoEnvelope until then
    fault,       \* process(): the exception caught at the boundary, or "none"
    invocations, \* process(): number of model invocations of this call
    locals,      \* process(): processed_data, context_str, prompt_content, ...
    now,         \* the clock datetime.utcnow() reads
    alert,       \* an Alert object, NoAlert until one is created
    calls,       \* concurrent process() calls on one agent, by call id
    jira         \* JiraIntegration: its configuration, its client and the Jira server

vars == <<fn, arg, ret, agent, pc, input_data, context, response, result,
          incident, envelope, fault, invocations, locals, now, alert, calls, jira>>

(***************************************************************************)
(* Python values                                                           *)
(***************************************************************************)
PyBool(b) == [t |-> "bool", b |-> b]
PyNum(n) == [t |-> "num", n |-> n]
PyStr(s) == [t |-> "str", s |-> s]
PyList(l) == [t |-> "list", l |-> l]
PyDict(o) == [t |-> "dict", o |-> o]
PyNone == [t |-> "None"]

\* A dict built by a caller, as its items in insertion order: its keys may be
\* any hashable value, where a PyDict (a dict json.loads built) has str keys.
PyMap(items) == [t |-> "map", items |-> items]
PyTuple(l) == [t |-> "tuple", l |-> l]
\* An instance of a class json cannot serialize (a datetime, a set, ...).
PyObject(cls) == [t |-> "object", cls |-> cls]

\* The empty mapping: a function with an empty domain.
EmptyDict == <<>>

\* d[k] = v on a Python dict (the function d with k added or overwritten).
DictSet(d, k, v) == [x \in (DOMAIN d) \cup {k} |-> IF x = k THEN v ELSE d[x]]

\* d.get(k, default)
DictGet(d, k, default) == IF k \in DOMAIN d THEN d[k] ELSE default

\* Outcome of a call: a returned value, or a raised exception.
Return(v) == [raised |-> FALSE, val |-> v]
Raise(e, m) == [raised |-> TRUE, exc |-> e, msg |-> m]

\* A handler of ValueError that misses its subclasses.
IsValueError_NoSubclasses(e) == e = "ValueError"

\* Python's exception hierarchy, as far as the handlers of the pipeline tell
\* exception classes apart: json.JSONDecodeError and pydantic's ValidationError
\* are subclasses of ValueError.
IsValueError(e) == e \in {"ValueError", "JSONDecodeError", "ValidationError"}

\* bool(v): Python truthiness.
Truthy(v) ==
    CASE v.t = "bool" -> v.b
      [] v.t = "num" -> v.n # 0
      [] v.t = "str" -> v.s # ""
      [] v.t = "list" -> Len(v.l) > 0
      [] v.t = "dict" -> DOMAIN v.o # {}
      [] v.t = "map" -> Len(v.items) > 0
      [] v.t = "tuple" -> Len(v.l) > 0
      [] v.t = "None" -> FALSE
      [] OTHER -> TRUE

\* v == True in Python: True itself, or the number 1 (1.0 is 100 here).
EqualsTrue(v) == (v.t = "bool" /\ v.b) \/ (v.t = "num" /\ v.n = 100)

(***************************************************************************)
(* Texts                                                                   *)
(***************************************************************************)
Ch(c) == [k |-> "ch", v |-> c]
StrLit(s) == [k |-> "str", v |-> s]
NumLit(l) == [k |-> "num", v |-> l]
Word(w) == [k |-> "word", v |-> w]

\* The backquote character, by name.
Tick == Ch("backquote")
Space == Ch(" ")
Newline == Ch("\n")

IsSpace(u) == u = Space \/ u = Newline

\* The literals of lines 167 and 169: three backquotes followed by json, and
\* three backquotes.
FenceJson == <<Tick, Tick, Tick, Ch("j"), Ch("s"), Ch("o"), Ch("n")>>
Fence == <<Tick, Tick, Tick>>

RECURSIVE lstrip(_)
lstrip(s) == IF s # <<>> /\ IsSpace(Head(s)) THEN lstrip(Tail(s)) ELSE s

RECURSIVE rstrip(_)
rstrip(s) ==
    IF s # <<>> /\ IsSpace(s[Len(s)]) THEN rstrip(SubSeq(s, 1, Len(s) - 1)) ELSE s

\* str.strip()
strip(s) == rstrip(lstrip(s))

\* str.startswith(p), str.endswith(p)
startswith(s, p) == Len(s) >= Len(p) /\ SubSeq(s, 1, Len(p)) = p
endswith(s, p) == Len(s) >= Len(p) /\ SubSeq(s, Len(s) - Len(p) + 1, Len(s)) = p

\* s[n:] and s[:-n]
DropFirst(s, n) == SubSeq(s, n + 1, Len(s))
DropLast(s, n) == SubSeq(s, 1, Len(s) - n)

\* A Python str given by its text (a raw response), as opposed to PyStr, a
\* str given by the content of a JSON string literal.
PyText(x) == [t |-> "text", x |-> x]

(***************************************************************************)
(* json.loads                                                              *)
(***************************************************************************)
\* The value of a JSON number literal, in hundredths.
NumberValue(l) ==
    CASE l = "-0.5" -> -50
      [] l = "0" -> 0
      [] l = "0.1" -> 10
      [] l = "0.42" -> 42
      [] l = "0.9" -> 90
      [] l = "1" -> 100
      [] l = "1.7" -> 170
      [] OTHER -> 0

NumberLiterals == {"-0.5", "0", "0.1", "0.42", "0.9", "1", "1.7"}

ParseOk(v, rest) == [ok |-> TRUE, val |-> v, rest |-> rest]
ParseFail(m) == [ok |-> FALSE, msg |-> m]

RECURSIVE ParseValue(_)
RECURSIVE ParseElements(_, _)
RECURSIVE ParseMembers(_, _)

\* The elements of an array, after its opening bracket or after a comma.
ParseElements(toks, acc) ==
    LET r == ParseValue(toks) IN
    IF ~r.ok THEN r
    ELSE IF r.rest = <<>> THEN ParseFail("Expecting ',' delimiter")
    ELSE IF Head(r.rest) = Ch(",")
        THEN ParseElements(Tail(r.rest), Append(acc, r.val))
    ELSE IF Head(r.rest) = Ch("]")
        THEN ParseOk(PyList(Append(acc, r.val)), Tail(r.rest))
    ELSE ParseFail("Expecting ',' delimiter")

\* The members of an object, after its opening brace or after a comma.  A
\* repeated key keeps its last value, as a Python dict does.
ParseMembers(toks, acc) ==
    IF toks = <<>> \/ Head(toks).k # "str"
        THEN ParseFail("Expecting property name enclosed in double quotes")
    ELSE IF Len(toks) < 2 \/ toks[2] # Ch(":")
        THEN ParseFail("Expecting ':' delimiter")
    ELSE
        LET r == ParseValue(SubSeq(toks, 3, Len(toks))) IN
        IF ~r.ok THEN r
        ELSE IF r.rest = <<>> THEN ParseFail("Expecting ',' delimiter")
        ELSE IF Head(r.rest) = Ch(",")
            THEN ParseMembers(Tail(r.rest), DictSet(acc, Head(toks).v, r.val))
        ELSE IF Head(r.rest) = Ch("}")
            THEN ParseOk(PyDict(DictSet(acc, Head(toks).v, r.val)), Tail(r.rest))
        ELSE ParseFail("Expecting ',' delimiter")

\* One JSON value at the head of toks.
ParseValue(toks) ==
    IF toks = <<>> THEN ParseFail("Expecting value")
    ELSE
        LET h == Head(toks)
            rest == Tail(toks)
        IN
        CASE h.k = "str" -> ParseOk(PyStr(h.v), rest)
          [] h.k = "num" -> ParseOk(PyNum(NumberValue(h.v)), rest)
          [] h = Word("true") -> ParseOk(PyBool(TRUE), rest)
          [] h = Word("false") -> ParseOk(PyBool(FALSE), rest)
          [] h = Word("null") -> ParseOk(PyNone, rest)
          [] h = Ch("[") ->
                IF rest # <<>> /\ Head(rest) = Ch("]")
                    THEN ParseOk(PyList(<<>>), Tail(rest))
                    ELSE ParseElements(rest, <<>>)
          [] h = Ch("{") ->
                IF rest # <<>> /\ Head(rest) = Ch("}")
                    THEN ParseOk(PyDict(EmptyDict), Tail(rest))
                    ELSE ParseMembers(rest, EmptyDict)
          [] OTHER -> ParseFail("Expecting value")

\* Whitespace between JSON tokens is insignificant.
SkipSpace(text) == SelectSeq(text, LAMBDA u : ~IsSpace(u))

\* json.loads(text): the value, or JSONDecodeError.
json_loads(text) ==
    LET r == ParseValue(SkipSpace(text)) IN
    IF ~r.ok THEN Raise("JSONDecodeError", r.msg)
    ELSE IF r.rest # <<>> THEN Raise("JSONDecodeError", "Extra data")
    ELSE Return(r.val)

\* float(v), in hundredths.
float(v) ==
    CASE v.t = "num" -> Return(v.n)
      [] v.t = "bool" -> Return(IF v.b THEN 100 ELSE 0)
      [] v.t = "str" ->
            IF v.s \in NumberLiterals
                THEN Return(NumberValue(v.s))
                ELSE Raise("ValueError", "could not convert string to float")
      [] OTHER -> Raise("TypeError", "float() argument must be a string or a real number")

min(a, b) == IF b < a THEN b ELSE a
max(a, b) == IF b > a THEN b ELSE a

(***************************************************************************)
(* Response validators                                                     *)
(***************************************************************************)
\* "field in result" for a str field name; raises for a value that is not a
\* container.  No string value of the model holds a field name as a proper
\* substring, so for a str the test is equality.
PyIn(field, v) ==
    CASE v.t = "dict" -> Return(field \in DOMAIN v.o)
      [] v.t = "list" -> Return(\E i \in 1..Len(v.l) : v.l[i] = PyStr(field))
      [] v.t = "str" -> Return(v.s = field)
      [] OTHER -> Raise("TypeError", "argument of type is not iterable")

\* result[field] = value
SetItem(v, field, value) ==
    IF v.t = "dict"
        THEN Return(PyDict(DictSet(v.o, field, value)))
        ELSE Raise("TypeError", "object does not support item assignment")

\* result.get(field, default)
GetItem(v, field, default) ==
    IF v.t = "dict"
        THEN Return(DictGet(v.o, field, default))
        ELSE Raise("AttributeError", "object has no attribute 'get'")

\* Lines 165-170 and 219-224: trim, drop a leading fence-with-json marker,
\* drop a trailing fence marker.  The result is what the local name
\* "response" holds from then on.
StripFences(resp) ==
    LET r1 == strip(resp)
        r2 == IF startswith(r1, FenceJson) THEN DropFirst(r1, 7) ELSE r1
    IN IF endswith(r2, Fence) THEN DropLast(r2, 3) ELSE r2

required_fields == <<"incident_detected", "confidence_score">>

\* Line 178: the default a missing required field gets.
RequiredDefault(field) ==
    IF field = "incident_detected" THEN PyBool(FALSE) ELSE PyNum(0)

\* Lines 176-178: the loop that back-fills the required fields.
RECURSIVE BackfillRequired(_, _)
BackfillRequired(res, fields) ==
    IF fields = <<>> THEN Return(res)
    ELSE
        LET present == PyIn(Head(fields), res) IN
        IF present.raised THEN present
        ELSE IF present.val THEN BackfillRequired(res, Tail(fields))
        ELSE
            LET set == SetItem(res, Head(fields), RequiredDefault(Head(fields))) IN
            IF set.raised THEN set ELSE BackfillRequired(set.val, Tail(fields))

\* A clamp without its lower bound.
ClampConfidence_NoLowerBound(c) == min(100, c)

\* Line 181: max(0.0, min(1.0, c)), in hundredths.
ClampConfidence(c) == max(0, min(100, c))

\* Line 181, the whole statement.
EnsureConfidence(res) ==
    LET got == GetItem(res, "confidence_score", PyNum(0)) IN
    IF got.raised THEN got
    ELSE
        LET f == float(got.val) IN
        IF f.raised THEN f
        ELSE SetItem(res, "confidence_score", PyNum(ClampConfidence(f.val)))

\* Lines 172-183: the statements of the try block after the fence stripping.
DetectionTry(cleaned) ==
    LET p == json_loads(strip(cleaned)) IN
    IF p.raised THEN p
    ELSE
        LET b == BackfillRequired(p.val, required_fields) IN
        IF b.raised THEN b ELSE EnsureConfidence(b.val)

\* Lines 187-192: the mapping the except clause returns.
DetectionFailure(e, cleaned) ==
    PyDict([incident_detected |-> PyBool(FALSE),
            confidence_score |-> PyNum(0),
            parse_error |-> PyStr(e.msg),
            raw_response |-> PyText(cleaned)])

\* A validator without its except clause.
_parse_detection_result_NoExcept(resp) == DetectionTry(StripFences(resp))

\* IncidentDetectionAgent._parse_detection_result: only JSONDecodeError and
\* ValueError are caught, any other exception leaves the function.
_parse_detection_result(resp) ==
    LET cleaned == StripFences(resp)
        out == DetectionTry(cleaned)
    IN IF out.raised /\ IsValueError(out.exc)
        THEN Return(DetectionFailure(out, cleaned))
        ELSE out

\* A list of sections that leaves out the last one.
expected_sections_NoEscalation ==
    <<"root_cause_analysis", "impact_assessment", "remediation_plan",
      "prevention_measures">>

expected_sections ==
    <<"root_cause_analysis", "impact_assessment", "remediation_plan",
      "prevention_measures", "escalation_recommendation">>

SectionStatus(status) == PyDict([status |-> PyStr(status)])

\* Lines 234-236: the loop that back-fills the expected sections.
RECURSIVE BackfillSections(_, _)
BackfillSections(res, sections) ==
    IF sections = <<>> THEN Return(res)
    ELSE
        LET present == PyIn(Head(sections), res) IN
        IF present.raised THEN present
        ELSE IF present.val THEN BackfillSections(res, Tail(sections))
        ELSE
            LET set == SetItem(res, Head(sections), SectionStatus("analysis_incomplete")) IN
            IF set.raised THEN set ELSE BackfillSections(set.val, Tail(sections))

\* Lines 239-240: a missing confidence_score becomes 0.5; a present one is
\* left as it is.
DefaultConfidence(res) ==
    LET present == PyIn("confidence_score", res) IN
    IF present.raised THEN present
    ELSE IF present.val THEN Return(res)
    ELSE SetItem(res, "confidence_score", PyNum(50))

\* Lines 226-242.
AnalysisTry(cleaned) ==
    LET p == json_loads(strip(cleaned)) IN
    IF p.raised THEN p
    ELSE
        LET b == BackfillSections(p.val, expected_sections) IN
        IF b.raised THEN b ELSE DefaultConfidence(b.val)

\* Lines 246-255.
AnalysisFailure(e, cleaned) ==
    PyDict([parse_error |-> PyStr(e.msg),
            raw_response |-> PyText(cleaned),
            confidence_score |-> PyNum(0),
            root_cause_analysis |-> SectionStatus("parse_failed"),
            impact_assessment |-> SectionStatus("parse_failed"),
            remediation_plan |-> SectionStatus("parse_failed"),
            prevention_measures |-> SectionStatus("parse_failed"),
            escalation_recommendation |-> SectionStatus("parse_failed")])

\* IncidentAnalysisAgent._parse_analysis_result
_parse_analysis_result(resp) ==
    LET cleaned == StripFences(resp)
        out == AnalysisTry(cleaned)
    IN IF out.raised /\ IsValueError(out.exc)
        THEN Return(AnalysisFailure(out, cleaned))
        ELSE out

(***************************************************************************)
(* Response texts the model call can return                                *)
(***************************************************************************)
\* One "key": value member of a JSON object text, as a one-member list.
Member(key, toks) == << <<key, toks>> >>

RECURSIVE MembersText(_)
MembersText(ms) ==
    IF ms = <<>> THEN <<>>
    ELSE <<StrLit(ms[1][1]), Ch(":"), Space>> \o ms[1][2]
         \o (IF Len(ms) > 1 THEN <<Ch(","), Space>> \o MembersText(Tail(ms)) ELSE <<>>)

\* The text of the JSON object with the members ms.
ObjText(ms) == <<Ch("{")>> \o MembersText(ms) \o <<Ch("}")>>

\* The text of the JSON array of the string literals strs.
RECURSIVE ElementsText(_)
ElementsText(strs) ==
    IF strs = <<>> THEN <<>>
    ELSE <<StrLit(Head(strs))>>
         \o (IF Len(strs) > 1 THEN <<Ch(","), Space>> \o ElementsText(Tail(strs)) ELSE <<>>)

ListText(strs) == <<Ch("[")>> \o ElementsText(strs) \o <<Ch("]")>>

\* What the model may put under each key of the response format the prompt
\* asks for (lines 40-51), including wrongly typed values; <<>> is "key absent".
IdChoices ==
    {<<>>,
     Member("incident_detected", <<Word("true")>>),
     Member("incident_detected", <<Word("false")>>),
     Member("incident_detected", <<StrLit("false")>>),
     Member("incident_detected", <<NumLit("0.42")>>)}

CsChoices ==
    {<<>>} \cup
    {Member("confidence_score", <<NumLit(l)>>) : l \in {"-0.5", "0.42", "0.9", "1.7"}} \cup
    {Member("confidence_score", <<StrLit("abc")>>),
     Member("confidence_score", <<StrLit("0.9")>>),
     Member("confidence_score", <<Word("null")>>),
     Member("confidence_score", <<Word("true")>>),
     Member("confidence_score", ListText(<<>>)),
     Member("confidence_score", ObjText(<<>>))}

SeverityChoices ==
    {Member("severity", <<StrLit(x)>>) :
        x \in {"critical", "high", "medium", "low", "unknown-value"}} \cup
    {Member("severity", <<Word("null")>>),
     Member("severity", <<NumLit("1")>>),
     Member("severity", ListText(<<"high">>))}

TitleChoices ==
    {Member("title", <<StrLit("API Errors")>>),
     Member("title", <<Word("null")>>),
     Member("description", <<StrLit("HTTP 500 on /users")>>),
     Member("description", <<NumLit("1")>>),
     Member("affected_service", <<StrLit("web-api")>>),
     Member("affected_service", <<Word("null")>>),
     Member("affected_service", <<NumLit("1")>>)}

ListChoices ==
    {Member("tags", ListText(<<"api">>)),
     Member("tags", ListText(<<"api", "api">>)),
     Member("tags", <<StrLit("api")>>),
     Member("tags", <<Ch("["), NumLit("1"), Ch("]")>>),
     Member("affected_components", ListText(<<"api">>)),
     Member("affected_components", <<Word("null")>>),
     Member("recommended_actions", ListText(<<"restart service">>)),
     Member("recommended_actions", <<StrLit("restart service")>>),
     Member("urgency_reasons", ListText(<<"customer impact">>))}

\* The members of the response of the end-to-end scenario after the two
\* required ones: severity high, a title, components and recommended actions.
ScenarioA ==
    Member("severity", <<StrLit("high")>>) \o
    Member("title", <<StrLit("API Errors")>>) \o
    Member("affected_components", ListText(<<"api">>)) \o
    Member("recommended_actions", ListText(<<"restart service">>))

RestChoices ==
    {<<>>, ScenarioA} \cup SeverityChoices \cup TitleChoices \cup ListChoices

DetectionBodies ==
    {ObjText(a \o b \o c) : a \in IdChoices, b \in CsChoices, c \in RestChoices}

\* A section of an analysis response.
SectionText == ObjText(Member("primary_cause", <<StrLit("db down")>>))

SectionChoices ==
    {<<>>,
     Member("root_cause_analysis", SectionText),
     Member("impact_assessment", <<StrLit("none")>>),
     Member("root_cause_analysis", SectionText) \o
        Member("impact_assessment", SectionText) \o
        Member("remediation_plan", SectionText) \o
        Member("prevention_measures", SectionText) \o
        Member("escalation_recommendation", SectionText)}

AnalysisBodies ==
    {ObjText(a \o b) : a \in SectionChoices, b \in CsChoices}

\* Valid JSON that is not an object.
OtherJsonBodies ==
    {ListText(<<>>), ListText(<<"incident_detected", "confidence_score">>),
     <<NumLit("0.42")>>, <<StrLit("ok")>>, <<Word("null")>>, <<Word("true")>>}

\* The response of the end-to-end scenario, and how many of its leading
\* units a truncated response keeps at most.
ScenarioAText ==
    ObjText(Member("incident_detected", <<Word("true")>>) \o
            Member("confidence_score", <<NumLit("0.9")>>) \o ScenarioA)

MaxPrefix == 9

\* Texts json.loads rejects: empty, prose, truncated, trailing comma, two
\* values, a missing colon.
MalformedBodies ==
    {<<>>,
     <<Word("No"), Space, Word("incident"), Space, Word("detected")>>,
     <<Ch("{"), StrLit("incident_detected"), Ch(":"), Word("true"), Ch(","), Ch("}")>>,
     ObjText(<<>>) \o <<Space>> \o ObjText(<<>>),
     <<Ch("{"), StrLit("incident_detected"), Word("true"), Ch("}")>>,
     <<Ch("["), StrLit("a"), Ch(",")>>} \cup
    {SubSeq(ScenarioAText, 1, n) : n \in 1..MaxPrefix}

JsonBodies == DetectionBodies \cup AnalysisBodies \cup OtherJsonBodies
Bodies == JsonBodies \cup MalformedBodies

\* What may surround the body: nothing, whitespace, a fence with the json
\* tag, a fence without a tag, a fence on one side only.
NoWrap == [pre |-> <<>>, post |-> <<>>]
FenceWrappers ==
    {[pre |-> FenceJson \o <<Newline>>, post |-> <<Newline>> \o Fence],
     [pre |-> <<Newline>> \o FenceJson \o <<Newline>>, post |-> <<Newline>> \o Fence \o <<Space, Newline>>],
     [pre |-> Fence \o <<Newline>>, post |-> <<Newline>> \o Fence]}
Wrappers ==
    {NoWrap, [pre |-> <<Space>>, post |-> <<Newline>>]} \cup FenceWrappers \cup
    {[pre |-> FenceJson \o <<Newline>>, post |-> <<>>],
     [pre |-> <<>>, post |-> <<Newline>> \o Fence]}

\* A response: a body and what surrounds it.
Responses == {[pre |-> w.pre, body |-> b, post |-> w.post] : w \in Wrappers, b \in Bodies}

ResponseText(r) == r.pre \o r.body \o r.post

(***************************************************************************)
(* json.dumps and the Input Normalizer                                     *)
(***************************************************************************)
\* str(v) inside a text, and str(v) as a JSON string literal: one unit each.
Fmt(v) == [k |-> "fmt", x |-> v]
StrOf(v) == [k |-> "strof", x |-> v]

\* The literal json.dumps writes for a number.
NumberLiteral(n) == CHOOSE l \in NumberLiterals : NumberValue(l) = n

\* "\n" and the indentation of a nesting level under indent=2; nothing when
\* json.dumps is called without indent.
Indent(indent, level) ==
    IF indent THEN <<Newline>> \o [i \in 1..(2 * level) |-> Space] ELSE <<>>

ItemSeparator(indent) == IF indent THEN <<Ch(",")>> ELSE <<Ch(","), Space>>

\* json.dumps coerces a key that is a str, a number, a bool or None; for any
\* other key it raises TypeError (default= is not applied to keys).
KeyText(key) ==
    CASE key.t = "str" -> Return(StrLit(key.s))
      [] key.t = "num" -> Return(StrLit(NumberLiteral(key.n)))
      [] key.t = "bool" -> Return(StrLit(IF key.b THEN "true" ELSE "false"))
      [] key.t = "None" -> Return(StrLit("null"))
      [] OTHER -> Raise("TypeError", "keys must be str, int, float, bool or None")

RECURSIVE DumpValue(_, _, _, _)
RECURSIVE DumpElements(_, _, _, _)
RECURSIVE DumpItems(_, _, _, _)

\* The elements of a list at nesting level "level", comma separated.
DumpElements(l, useDefault, indent, level) ==
    LET first == DumpValue(Head(l), useDefault, indent, level) IN
    IF first.raised THEN first
    ELSE IF Len(l) = 1 THEN Return(Indent(indent, level) \o first.val)
    ELSE
        LET more == DumpElements(Tail(l), useDefault, indent, level) IN
        IF more.raised THEN more
        ELSE Return(Indent(indent, level) \o first.val \o ItemSeparator(indent) \o more.val)

\* The items of a dict at nesting level "level", comma separated.
DumpItems(items, useDefault, indent, level) ==
    LET key == KeyText(Head(items)[1])
        value == DumpValue(Head(items)[2], useDefault, indent, level)
    IN
    IF key.raised THEN key
    ELSE IF value.raised THEN value
    ELSE
        LET one == Indent(indent, level) \o <<key.val, Ch(":"), Space>> \o value.val IN
        IF Len(items) = 1 THEN Return(one)
        ELSE
            LET more == DumpItems(Tail(items), useDefault, indent, level) IN
            IF more.raised THEN more
            ELSE Return(one \o ItemSeparator(indent) \o more.val)

\* The text of one value; level is the nesting level of its items.
DumpValue(v, useDefault, indent, level) ==
    CASE v.t = "str" -> Return(<<StrLit(v.s)>>)
      [] v.t = "num" -> Return(<<NumLit(NumberLiteral(v.n))>>)
      [] v.t = "bool" -> Return(<<Word(IF v.b THEN "true" ELSE "false")>>)
      [] v.t = "None" -> Return(<<Word("null")>>)
      [] v.t \in {"list", "tuple"} ->
            IF v.l = <<>> THEN Return(<<Ch("["), Ch("]")>>)
            ELSE
                LET body == DumpElements(v.l, useDefault, indent, level + 1) IN
                IF body.raised THEN body
                ELSE Return(<<Ch("[")>> \o body.val \o Indent(indent, level) \o <<Ch("]")>>)
      [] v.t = "map" ->
            IF v.items = <<>> THEN Return(<<Ch("{"), Ch("}")>>)
            ELSE
                LET body == DumpItems(v.items, useDefault, indent, level + 1) IN
                IF body.raised THEN body
                ELSE Return(<<Ch("{")>> \o body.val \o Indent(indent, level) \o <<Ch("}")>>)
      [] OTHER ->
            IF useDefault THEN Return(<<StrOf(v)>>)
            ELSE Raise("TypeError", "Object is not JSON serializable")

\* json.dumps(v), json.dumps(v, default=str), json.dumps(v, default=str, indent=2)
json_dumps(v, useDefault, indent) == DumpValue(v, useDefault, indent, 0)

\* The domain entities the normalizer renders.  pydantic has validated their
\* fields: fields is a dict with str keys and any values, labels a dict of
\* str to str, exception a str or None.
LogEntryObj(message, fields, exception) ==
    [t |-> "LogEntry", timestamp |-> PyObject("datetime"), level |-> "error",
     source |-> "web-api", message |-> message, fields |-> fields,
     exception |-> exception]

AlertObj(title, labels) ==
    [t |-> "Alert", title |-> title, severity |-> "critical",
     message |-> "5xx rate above threshold", source |-> "prometheus",
     timestamp |-> PyObject("datetime"), labels |-> labels]

\* Line 152: the hard cap on the items of a sequence.
ItemLimit == 50

\* Line 154: the separator between the items of a sequence.
Separator == <<Newline, Newline, Ch("-"), Ch("-"), Ch("-"), Newline, Newline>>

\* "sep".join(texts): the texts in order with sep between neighbours,
\* computed by halves to keep the recursion shallow on long lists.
RECURSIVE Join(_, _)
Join(sep, texts) ==
    IF texts = <<>> THEN <<>>
    ELSE IF Len(texts) = 1 THEN texts[1]
    ELSE Join(sep, SubSeq(texts, 1, Len(texts) \div 2)) \o sep
         \o Join(sep, SubSeq(texts, (Len(texts) \div 2) + 1, Len(texts)))

\* A slice that keeps every item.
Take_All(items, n) == items

\* items[:n]
Take(items, n) == SubSeq(items, 1, min(Len(items), n))

\* IncidentDetectionAgent._normalize_input_data
RECURSIVE _normalize_input_data(_)
RECURSIVE NormalizeItems(_)

\* Lines 151-153: the items normalized in order; the first fault ends the
\* loop.  The list is walked by halves, the earlier half first.
NormalizeItems(items) ==
    IF items = <<>> THEN Return(<<>>)
    ELSE IF Len(items) = 1
        THEN LET only == _normalize_input_data(items[1])
             IN IF only.raised THEN only ELSE Return(<<only.val>>)
    ELSE
        LET earlier == NormalizeItems(SubSeq(items, 1, Len(items) \div 2)) IN
        IF earlier.raised THEN earlier
        ELSE
            LET later == NormalizeItems(SubSeq(items, (Len(items) \div 2) + 1, Len(items))) IN
            IF later.raised THEN later ELSE Return(earlier.val \o later.val)

_normalize_input_data(data) ==
    CASE data.t = "str" -> Return(<<Fmt(data)>>)
      [] data.t = "text" -> Return(data.x)
      [] data.t = "LogEntry" ->
            LET dumped == json_dumps(data.fields, TRUE, FALSE) IN
            IF dumped.raised THEN dumped
            ELSE Return(<<Word("LOG ENTRY:"), Newline,
                          Word("Timestamp: "), Fmt(data.timestamp), Newline,
                          Word("Level: "), Word(data.level), Newline,
                          Word("Source: "), Word(data.source), Newline,
                          Word("Message: "), Word(data.message), Newline,
                          Word("Fields: ")>> \o dumped.val \o
                        <<Newline, Word("Exception: "),
                          (IF Truthy(data.exception) THEN Fmt(data.exception) ELSE Word("None")),
                          Newline>>)
      [] data.t = "Alert" ->
            LET dumped == json_dumps(data.labels, FALSE, FALSE) IN
            IF dumped.raised THEN dumped
            ELSE Return(<<Word("ALERT:"), Newline,
                          Word("Title: "), Word(data.title), Newline,
                          Word("Severity: "), Word(data.severity), Newline,
                          Word("Message: "), Word(data.message), Newline,
                          Word("Source: "), Word(data.source), Newline,
                          Word("Timestamp: "), Fmt(data.timestamp), Newline,
                          Word("Labels: ")>> \o dumped.val \o <<Newline>>)
      [] data.t = "list" ->
            LET items == NormalizeItems(Take(data.l, ItemLimit)) IN
            IF items.raised THEN items ELSE Return(Join(Separator, items.val))
      [] data.t = "map" -> json_dumps(data, TRUE, TRUE)
      [] OTHER -> Return(<<Fmt(data)>>)

(***************************************************************************)
(* Context summaries, additional data, incident rendering                  *)
(***************************************************************************)
\* A count or an index inside a text.
IntUnit(n) == [k |-> "int", n |-> n]
\* str(v)[:200]
Fmt200(v) == [k |-> "fmt200", x |-> v]

\* type(v).__name__
TypeName(v) ==
    CASE v.t = "num" -> "float"
      [] v.t = "map" -> "dict"
      [] v.t = "None" -> "NoneType"
      [] v.t = "object" -> v.cls
      [] OTHER -> v.t

\* SummaryLine with a sequence shown as its content.
SummaryLine_ShowsContent(key, value) ==
    IF value.t \in {"str", "num", "bool", "list"}
        THEN <<Word("- "), Fmt(key), Word(": "), Fmt(value)>>
    ELSE IF value.t \in {"list", "map"}
        THEN <<Word("- "), Fmt(key), Word(": "), Word(TypeName(value)), Word(" with "),
               IntUnit(IF value.t = "list" THEN Len(value.l) ELSE Len(value.items)),
               Word(" items")>>
    ELSE <<Word("- "), Fmt(key), Word(": "), Word(TypeName(value))>>

\* Lines 82-87 of base_agent.py: the entry of one context key.
SummaryLine(key, value) ==
    IF value.t \in {"str", "num", "bool"}
        THEN <<Word("- "), Fmt(key), Word(": "), Fmt(value)>>
    ELSE IF value.t \in {"list", "map"}
        THEN <<Word("- "), Fmt(key), Word(": "), Word(TypeName(value)), Word(" with "),
               IntUnit(IF value.t = "list" THEN Len(value.l) ELSE Len(value.items)),
               Word(" items")>>
    ELSE <<Word("- "), Fmt(key), Word(": "), Word(TypeName(value))>>

\* BaseAgent._create_context_summary: context.items() exists on a dict only.
_create_context_summary(ctx) ==
    IF ~Truthy(ctx) THEN Return(<<Word("No additional context provided.")>>)
    ELSE IF ctx.t # "map" THEN Raise("AttributeError", "object has no attribute 'items'")
    ELSE Return(<<Word("Context:"), Newline>> \o
                Join(<<Newline>>,
                     [i \in 1..Len(ctx.items) |-> SummaryLine(ctx.items[i][1], ctx.items[i][2])]))

\* key in m, m[key] and m.get(key, default) for a caller's dict.
MapHas(m, key) == \E i \in 1..Len(m.items) : m.items[i][1] = key
MapItem(m, key) == m.items[CHOOSE i \in 1..Len(m.items) : m.items[i][1] = key][2]
MapGet(m, key, default) == IF MapHas(m, key) THEN MapItem(m, key) ELSE default

\* Lines 179 and 195 of incident_analysis_agent.py: the caps on the logs and
\* alerts rendered.
LogLimit == 10
AlertLimit == 5

\* Lines 180-183 and 196-199: one numbered line of a log or an alert.
EntryLine(i, entry, tagKey, textKey) ==
    IF entry.t = "map"
        THEN <<Word("  "), IntUnit(i), Word(". ["), Fmt(MapGet(entry, PyStr(tagKey), PyStr("INFO"))),
               Word("] "), Fmt(MapGet(entry, PyStr(textKey), entry))>>
        ELSE <<Word("  "), IntUnit(i), Word(". "), Fmt200(entry)>>

\* Lines 175-183 and 191-199: a list section, its header and its lines; no
\* section when the value is not a list.
ListSection(value, header, limit, tagKey, textKey) ==
    IF value.t # "list" THEN <<>>
    ELSE << <<Word(header), IntUnit(Len(value.l))>> >> \o
         [i \in 1..min(Len(value.l), limit) |-> EntryLine(i, value.l[i], tagKey, textKey)]

\* Lines 186-188 and 202-204: a section that is json.dumps of the value.
DumpSection(value, header) ==
    LET dumped == json_dumps(value, TRUE, FALSE) IN
    IF dumped.raised THEN dumped ELSE Return(<< <<Word(header)>> \o dumped.val >>)

\* The keys _process_additional_data looks for.
SectionKeys == {"logs", "metrics", "alerts", "service_health"}

\* IncidentAnalysisAgent._process_additional_data.  On a truthy context that
\* is not a dict, "key in context" raises TypeError unless the context is a
\* list or a str; there the four tests are element (substring) tests, and
\* context[key] raises TypeError when one of them holds.
_process_additional_data(ctx) ==
    IF ~Truthy(ctx) THEN Return(<<Word("No additional data provided.")>>)
    ELSE IF ctx.t \in {"list", "str"} THEN
        IF \E key \in SectionKeys : PyIn(key, ctx).val
            THEN Raise("TypeError", "indices must be integers")
            ELSE Return(<<Word("No additional data provided.")>>)
    ELSE IF ctx.t # "map" THEN Raise("TypeError", "argument of type is not iterable")
    ELSE
        LET logs == IF MapHas(ctx, PyStr("logs"))
                        THEN ListSection(MapItem(ctx, PyStr("logs")), "RECENT LOGS", LogLimit,
                                         "level", "message")
                        ELSE <<>>
            metrics == IF MapHas(ctx, PyStr("metrics"))
                        THEN DumpSection(MapItem(ctx, PyStr("metrics")), "METRICS: ")
                        ELSE Return(<<>>)
            alerts == IF MapHas(ctx, PyStr("alerts"))
                        THEN ListSection(MapItem(ctx, PyStr("alerts")), "RELATED ALERTS",
                                         AlertLimit, "severity", "title")
                        ELSE <<>>
            health == IF MapHas(ctx, PyStr("service_health"))
                        THEN DumpSection(MapItem(ctx, PyStr("service_health")), "SERVICE HEALTH: ")
                        ELSE Return(<<>>)
        IN
        IF metrics.raised THEN metrics
        ELSE IF health.raised THEN health
        ELSE
            LET sections == logs \o metrics.val \o alerts \o health.val IN
            IF sections = <<>>
                THEN Return(<<Word("No additional data provided.")>>)
                ELSE Return(Join(<<Newline, Newline>>, sections))

\* IncidentAnalysisAgent._normalize_incident_data
_normalize_incident_data(data) ==
    CASE data.t = "Incident" ->
            LET dumped == json_dumps(data.metadata, TRUE, TRUE) IN
            IF dumped.raised THEN dumped
            ELSE Return(<<Newline, Word("ID: "), Fmt(data.id), Newline,
                          Word("Title: "), Fmt(data.title), Newline,
                          Word("Description: "), Fmt(data.description), Newline,
                          Word("Severity: "), Fmt(data.severity), Newline,
                          Word("Status: "), Fmt(data.status), Newline,
                          Word("Created: "), Fmt(data.created_at), Newline,
                          Word("Updated: "), Fmt(data.updated_at), Newline,
                          Word("Affected Service: "),
                          (IF Truthy(data.affected_service) THEN Fmt(data.affected_service)
                                                            ELSE Word("Unknown")), Newline,
                          Word("Affected Components: "),
                          (IF Truthy(data.affected_components) THEN Fmt(data.affected_components)
                                                               ELSE Word("None")), Newline,
                          Word("Assigned To: "),
                          (IF Truthy(data.assigned_to) THEN Fmt(data.assigned_to)
                                                       ELSE Word("Unassigned")), Newline,
                          Word("Tags: "),
                          (IF Truthy(data.tags) THEN Fmt(data.tags) ELSE Word("None")), Newline,
                          Word("JIRA Ticket: "),
                          (IF Truthy(data.jira_ticket_id) THEN Fmt(data.jira_ticket_id)
                                                          ELSE Word("None")), Newline,
                          Word("Metadata: ")>> \o dumped.val \o <<Newline>>)
      [] data.t = "map" -> json_dumps(data, TRUE, TRUE)
      [] OTHER -> Return(<<Fmt(data)>>)

\* An extraction that reads the id attribute only and ignores mappings.
_extract_incident_id_AttributeOnly(data) ==
    IF data.t = "Incident" THEN data.id ELSE PyNone

\* IncidentAnalysisAgent._extract_incident_id
_extract_incident_id(data) ==
    CASE data.t = "Incident" -> data.id
      [] data.t = "map" -> MapGet(data, PyStr("id"), PyNone)
      [] OTHER -> PyNone

(***************************************************************************)
(* Incident and the Entity Builder                                         *)
(***************************************************************************)
\* An instant of the clock: the date <<year, month, day>>, the second of the
\* day and the microsecond of the second.
Instant(date, second, microsecond) ==
    [date |-> date, second |-> second, microsecond |-> microsecond]

\* The instant one microsecond after at (within the day).
Elapse(at) ==
    IF at.microsecond < 999999
        THEN [at EXCEPT !.microsecond = @ + 1]
        ELSE [at EXCEPT !.second = @ + 1, !.microsecond = 0]

\* at is earlier than other.
Before(at, other) ==
    LET a == at.date
        b == other.date
    IN \/ a[1] < b[1]
       \/ a[1] = b[1] /\ a[2] < b[2]
       \/ a[1] = b[1] /\ a[2] = b[2] /\ a[3] < b[3]
       \/ a = b /\ at.second < other.second
       \/ a = b /\ at.second = other.second /\ at.microsecond < other.microsecond

\* The instant a process() call starts at.
StartOfCall == Instant(<<2024, 10, 2>>, 52218, 0)

\* format(n, "0<width>d"): the decimal digits of n, zero-padded.
Digits(n, width) == [i \in 1..width |-> (n \div (10 ^ (width - i))) % 10]

\* strftime("%Y%m%d")
DateDigits(date) == Digits(date[1], 4) \o Digits(date[2], 2) \o Digits(date[3], 2)

\* datetime.utcnow() at clock value at.
Datetime(at) == [t |-> "datetime", at |-> at]

\* Line 198: "INC-", the date as YYYYMMDD, "-", the microsecond of the second
\* as six digits.  Both reads of the clock give the instant at.
IncidentId(at) ==
    [t |-> "str", s |-> "INC-", date |-> DateDigits(at.date), dash |-> "-",
     microsecond |-> Digits(at.microsecond, 6)]

IsListOfStr(v) == v.t = "list" /\ \A i \in 1..Len(v.l) : v.l[i].t = "str"

\* Incident(...) as the Entity Builder calls it: pydantic validates the
\* field types (title and description str, affected_service str or None,
\* affected_components and tags lists of str) and raises ValidationError;
\* the fields not passed take their defaults.
NewIncident(id, title, description, severity, status, affected_service, affected_components, tags, metadata, at) ==
    IF \/ title.t # "str"
       \/ description.t # "str"
       \/ affected_service.t \notin {"str", "None"}
       \/ ~IsListOfStr(affected_components)
       \/ ~IsListOfStr(tags)
        THEN Raise("ValidationError", "validation error for Incident")
        ELSE Return([t |-> "Incident", id |-> id, title |-> title,
                     description |-> description, severity |-> severity,
                     status |-> status, created_at |-> Datetime(at),
                     updated_at |-> Datetime(at), resolved_at |-> PyNone,
                     assigned_to |-> PyNone, reporter |-> PyNone,
                     affected_service |-> affected_service,
                     affected_components |-> affected_components,
                     jira_ticket_id |-> PyNone, slack_thread_id |-> PyNone,
                     root_cause |-> PyNone, resolution_summary |-> PyNone,
                     tags |-> tags, metadata |-> metadata])

\* Lines 201-206: the keys of severity_map.
SeverityNames == {"critical", "high", "medium", "low"}

\* Line 207: severity_map.get(detection_result.get("severity", "medium"),
\* MEDIUM).  Looking up a list or a dict raises TypeError (unhashable).
MapSeverity(detection) ==
    LET key == DictGet(detection, "severity", PyStr("medium")) IN
    IF key.t \in {"list", "dict"} THEN Raise("TypeError", "unhashable type")
    ELSE IF key.t = "str" /\ key.s \in SeverityNames THEN Return(PyStr(key.s))
    ELSE Return(PyStr("medium"))

\* A metadata mapping whose list entries are read without a default.
DetectionMetadata_NoDefaults(detection, name) ==
    PyMap(<< <<PyStr("detection_confidence"), DictGet(detection, "confidence_score", PyNum(0))>>,
             <<PyStr("recommended_actions"), DictGet(detection, "recommended_actions", PyNone)>>,
             <<PyStr("urgency_reasons"), DictGet(detection, "urgency_reasons", PyNone)>>,
             <<PyStr("detected_by"), PyStr(name)>> >>)

\* Lines 219-224: the metadata of the Incident.
DetectionMetadata(detection, name) ==
    PyMap(<< <<PyStr("detection_confidence"), DictGet(detection, "confidence_score", PyNum(0))>>,
             <<PyStr("recommended_actions"), DictGet(detection, "recommended_actions", PyList(<<>>))>>,
             <<PyStr("urgency_reasons"), DictGet(detection, "urgency_reasons", PyList(<<>>))>>,
             <<PyStr("detected_by"), PyStr(name)>> >>)

\* IncidentDetectionAgent._create_incident_from_detection, on the mapping
\* (detection) of a validated detection result.
_create_incident_from_detection(detection, name, at) ==
    LET severity == MapSeverity(detection) IN
    IF severity.raised THEN severity
    ELSE NewIncident(IncidentId(at),
                     DictGet(detection, "title", PyStr("Detected Incident")),
                     DictGet(detection, "description", PyStr("Incident detected by AI analysis")),
                     severity.val,
                     PyStr("new"),
                     DictGet(detection, "affected_service", PyNone),
                     DictGet(detection, "affected_components", PyList(<<>>)),
                     DictGet(detection, "tags", PyList(<<>>)),
                     DetectionMetadata(detection, name),
                     at)

\* incident.model_dump(): the mapping of the fields.
model_dump(inc) == PyDict([f \in (DOMAIN inc) \ {"t"} |-> inc[f]])

(***************************************************************************)
(* Inputs a caller can pass to process()                                   *)
(***************************************************************************)
RawText == PyStr("2024-10-02 14:30:18 [ERROR] API endpoint /users returned 500")

\* A dict with one item.
OneItem(key, value) == PyMap(<< <<key, value>> >>)

\* A key json.dumps cannot coerce.
TupleKey == PyTuple(<<PyNum(100), PyNum(0)>>)

LogEntries ==
    {LogEntryObj("Connection timeout", PyMap(<<>>), PyNone),
     LogEntryObj("Connection refused", OneItem(PyStr("seen_at"), PyObject("datetime")),
                 PyStr("ConnectionError")),
     LogEntryObj("Shard map changed",
                 OneItem(PyStr("shards"), OneItem(TupleKey, PyStr("moved"))), PyNone)}

Alerts == {AlertObj("High error rate", OneItem(PyStr("env"), PyStr("prod")))}

Mappings ==
    {PyMap(<<>>),
     OneItem(PyStr("service"), PyStr("web-api")),
     OneItem(PyStr("seen_at"), PyObject("datetime")),
     OneItem(PyStr("codes"), PyList(<<PyNum(100), PyObject("set")>>)),
     OneItem(PyNum(100), PyStr("numeric key")),
     OneItem(PyNone, PyStr("None key")),
     OneItem(TupleKey, PyStr("tuple key")),
     PyMap(<< <<PyStr("id"), PyStr("INC-1")>>, <<PyStr("title"), PyStr("API Errors")>> >>)}

OtherValues == {PyObject("datetime"), PyNum(42), PyNone, PyTuple(<<>>)}

Leaves == {RawText} \cup LogEntries \cup Alerts \cup Mappings \cup OtherValues

\* The longest sequence input, and the sequences of up to that many items.
MaxItems == 2

SeqsOf(S, n) == UNION {[1..m -> S] : m \in 0..n}

\* The longest of the long sequences.
MaxLong == 120

\* Long sequences: k times one item, then another item up to the length.
\* The items are strings (two of them given character by character: one
\* ends and one begins with a part of the separator), and a dict json.dumps
\* rejects.
LongItems ==
    {RawText, PyStr("ok"),
     PyText(<<Word("x"), Newline, Newline, Ch("-"), Ch("-"), Ch("-")>>),
     PyText(<<Ch("-"), Ch("-"), Ch("-"), Newline, Newline, Word("y")>>),
     OneItem(TupleKey, PyStr("tuple key"))}

LongLists ==
    {PyList([i \in 1..n |-> IF i <= k THEN a ELSE b]) :
        n \in {1, 49, 50, 51, MaxLong}, k \in {0, 1, 49, 50}, a \in LongItems, b \in LongItems}

NormalizerInputs ==
    Leaves \cup {PyList(l) : l \in SeqsOf(Leaves, MaxItems)}
           \cup {PyList(<<PyList(<<x>>)>>) : x \in Leaves}
           \cup LongLists

(***************************************************************************)
(* State                                                                   *)
(***************************************************************************)
NotCalled == [called |-> FALSE]
NoIncident == [built |-> FALSE]
NoEnvelope == [returned |-> FALSE]
NoLocals == <<>>
NoAlert == [created |-> FALSE]
NoCalls == <<>>
NoJira == [configured |-> FALSE]

\* No Alert exists, no concurrent calls are under way, no JiraIntegration exists.
ObjectsIdle == alert = NoAlert /\ calls = NoCalls /\ jira = NoJira

\* No process() call is under way.
PipelineIdle ==
    /\ agent = "none"
    /\ pc = "idle"
    /\ input_data = PyNone
    /\ context = PyNone
    /\ response = NotCalled
    /\ result = NotCalled
    /\ incident = NoIncident
    /\ envelope = NoEnvelope
    /\ fault = "none"
    /\ invocations = 0
    /\ locals = NoLocals
    /\ now = StartOfCall

pipelineVars ==
    <<agent, pc, input_data, context, response, result, incident, envelope,
      fault, invocations, locals, now>>

(***************************************************************************)
(* process(): one call of either agent, stage by stage                     *)
(***************************************************************************)
DetectionName == "IncidentDetectionAgent"
AnalysisName == "IncidentAnalysisAgent"
AgentName(a) == IF a = "detection" THEN DetectionName ELSE AnalysisName

\* A stored Incident, as a caller builds it for the analysis agent.
IncidentObj(metadata) ==
    [t |-> "Incident", id |-> PyStr("INC-20241002-001"),
     title |-> PyStr("Database Connection Failures"),
     description |-> PyStr("Multiple database connection timeouts"),
     severity |-> PyStr("high"), status |-> PyStr("investigating"),
     created_at |-> Datetime(StartOfCall), updated_at |-> Datetime(StartOfCall), resolved_at |-> PyNone,
     assigned_to |-> PyNone, reporter |-> PyNone,
     affected_service |-> PyStr("web-api"),
     affected_components |-> PyList(<<PyStr("database"), PyStr("redis")>>),
     jira_ticket_id |-> PyNone, slack_thread_id |-> PyNone,
     root_cause |-> PyNone, resolution_summary |-> PyNone,
     tags |-> PyList(<<PyStr("database"), PyStr("timeout")>>), metadata |-> metadata]

DetectionInputs ==
    {RawText,
     PyList(<<LogEntryObj("Connection timeout", PyMap(<<>>), PyNone),
              AlertObj("High error rate", OneItem(PyStr("env"), PyStr("prod")))>>),
     OneItem(TupleKey, PyStr("tuple key"))}

AnalysisInputs ==
    {IncidentObj(PyMap(<<>>)),
     IncidentObj(OneItem(PyStr("shards"), OneItem(TupleKey, PyStr("moved")))),
     PyMap(<< <<PyStr("id"), PyStr("INC-1")>>, <<PyStr("title"), PyStr("API Errors")>> >>),
     OneItem(PyStr("title"), PyStr("API Errors")),
     RawText}

\* Contexts: none, the context of the tests, one whose metrics json.dumps
\* rejects, and a truthy context that is not a dict.
Contexts ==
    {PyNone,
     PyMap(<< <<PyStr("service"), PyStr("web-api")>>,
              <<PyStr("logs"), PyList(<<PyStr("Redis connection refused")>>)>>,
              <<PyStr("metrics"), OneItem(PyStr("memory_usage"), PyNum(90))>> >>),
     OneItem(PyStr("metrics"), OneItem(TupleKey, PyNum(0))),
     PyList(<<PyStr("web-api")>>)}

\* The response texts the model returns in a call: every detection body
\* whose confidence_score is absent, 0.9, 1.7 or "abc", every analysis
\* body, the other bodies; bare, and the scenario's body fenced.
PipelineCs ==
    {<<>>, Member("confidence_score", <<NumLit("0.9")>>),
     Member("confidence_score", <<NumLit("1.7")>>),
     Member("confidence_score", <<StrLit("abc")>>)}

DetectionTexts ==
    {ObjText(a \o b \o c) : a \in IdChoices, b \in PipelineCs, c \in RestChoices}
    \cup OtherJsonBodies \cup MalformedBodies
    \cup {w.pre \o ScenarioAText \o w.post : w \in FenceWrappers}

AnalysisTexts ==
    AnalysisBodies \cup OtherJsonBodies \cup MalformedBodies
    \cup {w.pre \o ObjText(<<>>) \o w.post : w \in FenceWrappers}

\* What awaiting self.llm.ainvoke gives: a message whose content is a text,
\* or a fault of the transport.
ModelFaults ==
    {Raise("TimeoutError", "Request timed out"),
     Raise("AuthenticationError", "Incorrect API key"),
     Raise("RateLimitError", "Rate limit reached")}

ModelOutcomes(a) ==
    {Return(x) : x \in (IF a = "detection" THEN DetectionTexts ELSE AnalysisTexts)}
    \cup ModelFaults

\* An _invoke_llm that invokes the model a second time after a fault.
Attempts_RetryOnFault(outcome) == IF outcome.raised THEN 2 ELSE 1

\* Line 69: how many times _invoke_llm awaits self.llm.ainvoke, given the
\* outcome of the first: once, the except clause of line 71 only logs and
\* raises again.
Attempts(outcome) == 1

\* BaseAgent._invoke_llm: the content of the response; a fault is logged and
\* raised again.
_invoke_llm(outcome) == IF outcome.raised THEN outcome ELSE Return(outcome.val)

\* Lines 116-122: the envelope the except clause of detection returns.
DetectionErrorEnvelope(e, at) ==
    PyDict([error |-> PyStr(e.msg),
            detection_result |-> PyDict([incident_detected |-> PyBool(FALSE),
                                         confidence_score |-> PyNum(0)]),
            incident |-> PyNone,
            processed_at |-> Datetime(at),
            agent |-> PyStr(DetectionName)])

\* Lines 133-139 of incident_analysis_agent.py.
AnalysisErrorEnvelope(e, data, at) ==
    PyDict([error |-> PyStr(e.msg),
            analysis |-> PyNone,
            analyzed_at |-> Datetime(at),
            agent |-> PyStr(AnalysisName),
            incident_id |-> _extract_incident_id(data)])

ErrorEnvelope(a, e, data, at) ==
    IF a = "detection" THEN DetectionErrorEnvelope(e, at)
                       ELSE AnalysisErrorEnvelope(e, data, at)

\* Lines 104-109.
DetectionEnvelope(res, inc, at) ==
    PyDict([detection_result |-> res,
            incident |-> IF inc = NoIncident THEN PyNone ELSE model_dump(inc),
            processed_at |-> Datetime(at),
            agent |-> PyStr(DetectionName)])

\* Lines 121-126 of incident_analysis_agent.py.
AnalysisEnvelope(res, data, at) ==
    PyDict([analysis |-> res,
            analyzed_at |-> Datetime(at),
            agent |-> PyStr(AnalysisName),
            incident_id |-> _extract_incident_id(data)])

\* The classes of the faults of the model that derive from Exception: all
\* of them (none is a KeyboardInterrupt or a SystemExit).
ExceptionClasses ==
    {"ValueError", "JSONDecodeError", "ValidationError", "TypeError", "AttributeError",
     "TimeoutError", "AuthenticationError", "RateLimitError"}

\* An except clause that names ValueError instead of Exception.
CaughtByProcess_ValueErrorOnly(exc) == IsValueError(exc)

\* Lines 114 and 131: "except Exception".
CaughtByProcess(exc) == exc \in ExceptionClasses

\* An except clause that notes the fault and runs the stage again.
Caught_Retries(e, at) ==
    /\ fault' = e.exc
    /\ UNCHANGED <<pc, envelope>>

\* An except clause that notes the fault and goes on to build the envelope
\* of a success.
Caught_GoesOn(e, at) ==
    /\ fault' = e.exc
    /\ pc' = "package"
    /\ UNCHANGED envelope

\* A stage raised e at clock value at: the except clause of process() returns
\* the error envelope; a fault the clause does not catch reaches the caller.
Caught(e, at) ==
    /\ fault' = e.exc
    /\ IF CaughtByProcess(e.exc)
        THEN /\ pc' = "error"
             /\ envelope' = ErrorEnvelope(agent, e, input_data, at)
        ELSE /\ pc' = "raised"
             /\ UNCHANGED envelope

Init ==
    /\ fn = "none"
    /\ arg = PyNone
    /\ ret = NotCalled
    /\ PipelineIdle
    /\ ObjectsIdle

\* A caller calls process(input_data, context) of one of the agents.
Start ==
    /\ fn = "none"
    /\ pc = "idle"
    /\ \E a \in {"detection", "analysis"} :
        /\ agent' = a
        /\ input_data' \in (IF a = "detection" THEN DetectionInputs ELSE AnalysisInputs)
    /\ context' \in Contexts
    /\ pc' = "normalize"
    /\ UNCHANGED <<alert, calls, jira, fn, arg, ret, response, result, incident, envelope, fault,
                   invocations, locals, now>>

\* NORMALIZE: _normalize_input_data / _normalize_incident_data.
Normalize ==
    /\ pc = "normalize"
    /\ LET out == IF agent = "detection" THEN _normalize_input_data(input_data)
                                         ELSE _normalize_incident_data(input_data)
       IN IF out.raised
            THEN Caught(out, now) /\ UNCHANGED locals
            ELSE /\ locals' = [processed_data |-> out.val]
                 /\ pc' = IF agent = "detection" THEN "summarize" ELSE "additional"
                 /\ UNCHANGED <<fault, envelope>>
    /\ UNCHANGED <<alert, calls, jira, fn, arg, ret, agent, input_data, context, response, result,
                   incident, invocations, now>>

\* The analysis agent's _process_additional_data(context).
ProcessAdditionalData ==
    /\ pc = "additional"
    /\ LET out == _process_additional_data(context)
       IN IF out.raised
            THEN Caught(out, now) /\ UNCHANGED locals
            ELSE /\ locals' = [processed_data |-> locals.processed_data,
                               additional_data |-> out.val]
                 /\ pc' = "summarize"
                 /\ UNCHANGED <<fault, envelope>>
    /\ UNCHANGED <<alert, calls, jira, fn, arg, ret, agent, input_data, context, response, result,
                   incident, invocations, now>>

\* SUMMARIZE_CONTEXT: _create_context_summary(context).
SummarizeContext ==
    /\ pc = "summarize"
    /\ LET out == _create_context_summary(context)
       IN IF out.raised
            THEN Caught(out, now) /\ UNCHANGED locals
            ELSE /\ locals' = [x \in (DOMAIN locals) \cup {"context_str"} |->
                                  IF x = "context_str" THEN out.val ELSE locals[x]]
                 /\ pc' = "prompt"
                 /\ UNCHANGED <<fault, envelope>>
    /\ UNCHANGED <<alert, calls, jira, fn, arg, ret, agent, input_data, context, response, result,
                   incident, invocations, now>>

\* BUILD_PROMPT: the template filled with the texts, and the two messages.
\* Formatting texts into the template does not fail.
BuildPrompt ==
    /\ pc = "prompt"
    /\ locals' = [x \in (DOMAIN locals) \cup {"prompt_content"} |->
                     IF x = "prompt_content"
                        THEN <<Word("template:")>> \o locals.context_str
                             \o (IF agent = "analysis" THEN locals.additional_data ELSE <<>>)
                             \o locals.processed_data
                        ELSE locals[x]]
    /\ pc' = "invoke"
    /\ UNCHANGED <<alert, calls, jira, fn, arg, ret, agent, input_data, context, response, result,
                   incident, envelope, fault, invocations, now>>

\* INVOKE_MODEL: await self._invoke_llm(messages); time passes meanwhile.
InvokeModel ==
    /\ pc = "invoke"
    /\ now' = Elapse(now)
    /\ \E outcome \in ModelOutcomes(agent) :
        LET out == _invoke_llm(outcome)
        IN /\ invocations' = invocations + Attempts(outcome)
           /\ IF out.raised
            THEN Caught(out, now') /\ UNCHANGED response
            ELSE /\ response' = out
                 /\ pc' = "validate"
                 /\ UNCHANGED <<fault, envelope>>
    /\ UNCHANGED <<alert, calls, jira, fn, arg, ret, agent, input_data, context, result, incident, locals>>

\* What each validator returns for each text the model can return.
DetectionOutcomes == [text \in DetectionTexts |-> _parse_detection_result(text)]
AnalysisOutcomes == [text \in AnalysisTexts |-> _parse_analysis_result(text)]

\* VALIDATE_RESPONSE: _parse_detection_result / _parse_analysis_result.
ValidateResponse ==
    /\ pc = "validate"
    /\ LET out == IF agent = "detection" THEN DetectionOutcomes[response.val]
                                         ELSE AnalysisOutcomes[response.val]
       IN IF out.raised
            THEN Caught(out, now) /\ UNCHANGED result
            ELSE /\ result' = out.val
                 /\ pc' = IF agent = "detection" THEN "entity" ELSE "package"
                 /\ UNCHANGED <<fault, envelope>>
    /\ UNCHANGED <<alert, calls, jira, fn, arg, ret, agent, input_data, context, response, incident,
                   invocations, locals, now>>

\* Line 101: the test that decides whether an Incident is built.
IncidentWanted(res) == Truthy(DictGet(res.o, "incident_detected", PyBool(FALSE)))

\* BUILD_ENTITY: lines 100-102 of the detection agent.
BuildEntity ==
    /\ pc = "entity"
    /\ IF IncidentWanted(result)
        THEN LET out == _create_incident_from_detection(result.o, DetectionName, now)
             IN IF out.raised
                 THEN Caught(out, now) /\ UNCHANGED incident
                 ELSE /\ incident' = out.val
                      /\ pc' = "package"
                      /\ UNCHANGED <<fault, envelope>>
        ELSE /\ pc' = "package"
             /\ UNCHANGED <<incident, fault, envelope>>
    /\ UNCHANGED <<alert, calls, jira, fn, arg, ret, agent, input_data, context, response, result,
                   invocations, locals, now>>

\* DONE: the success envelope is built, logged and returned.
ReturnEnvelope ==
    /\ pc = "package"
    /\ envelope' = IF agent = "detection"
                    THEN DetectionEnvelope(result, incident, now)
                    ELSE AnalysisEnvelope(result, input_data, now)
    /\ pc' = "done"
    /\ UNCHANGED <<alert, calls, jira, fn, arg, ret, agent, input_data, context, response, result,
                   incident, fault, invocations, locals, now>>

Next ==
    \/ Start
    \/ Normalize
    \/ ProcessAdditionalData
    \/ SummarizeContext
    \/ BuildPrompt
    \/ InvokeModel
    \/ ValidateResponse
    \/ BuildEntity
    \/ ReturnEnvelope

Spec == Init /\ [][Next]_vars

\* Every stage but the model call is synchronous code that runs once its
\* predecessor has returned; the awaited model call is assumed to return or
\* fail in the end.
Progress ==
    /\ WF_vars(Normalize)
    /\ WF_vars(ProcessAdditionalData)
    /\ WF_vars(SummarizeContext)
    /\ WF_vars(BuildPrompt)
    /\ WF_vars(InvokeModel)
    /\ WF_vars(ValidateResponse)
    /\ WF_vars(BuildEntity)
    /\ WF_vars(ReturnEnvelope)

SpecLive == Init /\ [][Next]_vars /\ Progress

(***************************************************************************)
(* Properties of process()                                                 *)
(***************************************************************************)
\* The call of process() has returned.
Returned == pc \in {"done", "error"}

\* C1: IncidentDetectionAgent.process never raises to its caller: whatever
\* the input, the context and the outcome of the model call, no fault
\* reaches the caller and the call ends with an envelope; once a stage has
\* raised, the envelope has exactly the keys error (a text), detection_result (exactly
\* incident_detected false and confidence_score 0.0), incident (None),
\* processed_at (a timestamp) and agent (the agent's name).
C1_DetectionNeverRaises ==
    agent = "detection" =>
        /\ pc # "raised"
        /\ Returned <=> envelope # NoEnvelope
        /\ fault # "none" =>
            /\ pc = "error"
            /\ envelope.t = "dict"
            /\ DOMAIN envelope.o =
                 {"error", "detection_result", "incident", "processed_at", "agent"}
            /\ envelope.o["error"].t = "str"
            /\ envelope.o["detection_result"] =
                 PyDict([incident_detected |-> PyBool(FALSE), confidence_score |-> PyNum(0)])
            /\ envelope.o["incident"] = PyNone
            /\ envelope.o["processed_at"].t = "datetime"
            /\ envelope.o["agent"] = PyStr("IncidentDetectionAgent")

\* C1 witness: the model call timed out and the detection agent returned the
\* error envelope.
C1_Witness ==
    /\ agent = "detection"
    /\ pc = "error"
    /\ fault = "TimeoutError"
    /\ envelope.o["error"] = PyStr("Request timed out")

\* The incident_id the analysis envelope is to carry for an input.
InputId(data) ==
    IF data.t = "Incident" THEN data.id
    ELSE IF data.t = "map" /\ \E i \in 1..Len(data.items) : data.items[i][1] = PyStr("id")
        THEN (CHOOSE item \in {data.items[i] : i \in 1..Len(data.items)} :
                  item[1] = PyStr("id"))[2]
    ELSE PyNone

\* C2: IncidentAnalysisAgent.process never raises to its caller: no fault
\* reaches the caller and the call ends with an envelope; once a stage has
\* raised, the
\* envelope has exactly the keys error (a text), analysis (None),
\* analyzed_at, agent and incident_id; in every envelope, success or error,
\* incident_id is the id of the input Incident, the "id" entry of the input
\* mapping, or None for any other input.
C2_AnalysisNeverRaises ==
    agent = "analysis" =>
        /\ pc # "raised"
        /\ Returned <=> envelope # NoEnvelope
        /\ fault # "none" =>
            /\ pc = "error"
            /\ envelope.t = "dict"
            /\ DOMAIN envelope.o = {"error", "analysis", "analyzed_at", "agent", "incident_id"}
            /\ envelope.o["error"].t = "str"
            /\ envelope.o["analysis"] = PyNone
            /\ envelope.o["analyzed_at"].t = "datetime"
            /\ envelope.o["agent"] = PyStr("IncidentAnalysisAgent")
        /\ Returned => envelope.o["incident_id"] = InputId(input_data)

\* C2 witness: the analysis of a mapping with an "id" entry failed in a
\* stage, and the error envelope carries that id.
C2_Witness ==
    /\ agent = "analysis"
    /\ pc = "error"
    /\ input_data.t = "map"
    /\ envelope.o["incident_id"] = PyStr("INC-1")

\* C7: in every detection envelope the incident field is not None exactly
\* when incident_detected of the validated detection result equals True.
C7_IncidentIffDetected ==
    (agent = "detection" /\ Returned) =>
        (envelope.o["incident"] # PyNone
            <=> EqualsTrue(envelope.o["detection_result"].o["incident_detected"]))

\* The JSON object the model returned, fenced with the json tag or not.
ResponseObject == json_loads(StripFences(response.val))

\* The model returned a JSON object with incident_detected true.
DetectedResponse ==
    /\ response # NotCalled
    /\ ~ResponseObject.raised
    /\ ResponseObject.val.t = "dict"
    /\ DictGet(ResponseObject.val.o, "incident_detected", PyNone) = PyBool(TRUE)

\* The Incident severity for the severity entry of a response.
TableSeverity(o) ==
    IF "severity" \in DOMAIN o /\ o["severity"].t = "str"
       /\ o["severity"].s \in {"critical", "high", "low"}
        THEN o["severity"]
        ELSE PyStr("medium")

\* The value of a metadata key of a dumped Incident; None if it has no such
\* key.
Metadata(inc, key) == MapGet(inc.o["metadata"], PyStr(key), PyNone)

EntityStageOver ==
    /\ agent = "detection"
    /\ result # NotCalled
    /\ IncidentWanted(result)
    /\ pc \in {"package", "done", "error"}

\* C9: the Entity Builder maps the severity of the detection result through
\* a fixed table: the lookup gives critical, high, medium or low for the
\* same-named value and medium for every other value or an absent severity,
\* so the lookup does not fault and a built Incident has that severity.
C9_SeverityTable ==
    EntityStageOver =>
        /\ fault # "TypeError"
        /\ incident # NoIncident => incident.severity = TableSeverity(result.o)

\* The detection model call returned a text that is not JSON, with the
\* fences the validator removes taken off.
UnparseableResponse ==
    /\ agent = "detection"
    /\ response # NotCalled
    /\ json_loads(StripFences(response.val)).raised

\* C17: when the model call returns a text that cannot be parsed as JSON,
\* no stage faults and IncidentDetectionAgent.process returns a success
\* envelope: no error field, a detection_result with parse_error,
\* raw_response and incident_detected false, and incident None.
C17_ParseFailureAbsorbed ==
    UnparseableResponse =>
        /\ fault = "none"
        /\ pc # "error"
        /\ pc = "done" =>
            /\ DOMAIN envelope.o = {"detection_result", "incident", "processed_at", "agent"}
            /\ {"parse_error", "raw_response"} \subseteq DOMAIN envelope.o["detection_result"].o
            /\ envelope.o["detection_result"].o["parse_error"].t = "str"
            /\ envelope.o["detection_result"].o["incident_detected"] = PyBool(FALSE)
            /\ envelope.o["incident"] = PyNone

\* C17 witness: the model answered in prose and the call returned a success
\* envelope whose detection_result carries the text as raw_response.
C17_Witness ==
    /\ UnparseableResponse
    /\ pc = "done"
    /\ response.val = <<Word("No"), Space, Word("incident"), Space, Word("detected")>>
    /\ envelope.o["detection_result"].o["raw_response"] = PyText(response.val)

\* C18: for every mapping the detection validator returns with
\* incident_detected true (or any value the test of line 101 lets pass),
\* whatever its optional fields hold, the Entity Builder does not raise and
\* returns an Incident.
C18_EntityBuilderNeverRaises ==
    EntityStageOver =>
        /\ fault = "none"
        /\ incident # NoIncident

\* C20: within one process() call of either agent the model is invoked at
\* most once: the count of invocations only ever goes from 0 to 1, at the
\* model-call stage; a failed invocation (timeout, authentication failure,
\* rate limit) is the only one of its call, leaves its fault un-retried and
\* ends the call with the error envelope carrying the fault's message.
C20_AtMostOneInvocation ==
    /\ [](/\ invocations \in {0, 1}
          /\ fault \in {"TimeoutError", "AuthenticationError", "RateLimitError"} =>
                /\ invocations = 1
                /\ response = NotCalled
                /\ pc = "error"
                /\ envelope.o["error"] \in {PyStr("Request timed out"),
                                           PyStr("Incorrect API key"),
                                           PyStr("Rate limit reached")})
    /\ [][invocations' # invocations =>
            /\ pc = "invoke"
            /\ invocations = 0
            /\ invocations' = 1]_vars

\* C20 witness: the analysis agent's model call hit the rate limit, and the
\* call ended with the error envelope after that one invocation.
C20_Witness ==
    /\ agent = "analysis"
    /\ pc = "error"
    /\ fault = "RateLimitError"
    /\ invocations = 1
    /\ envelope.o["error"] = PyStr("Rate limit reached")

\* The place of a stage in the order of the stages of detection's process().
StageRank(stage) ==
    CASE stage = "idle" -> 0
      [] stage = "normalize" -> 1
      [] stage = "summarize" -> 2
      [] stage = "prompt" -> 3
      [] stage = "invoke" -> 4
      [] stage = "validate" -> 5
      [] stage = "entity" -> 6
      [] stage = "package" -> 7
      [] stage = "done" -> 8

\* The call ended with a fault: ERROR.
Faulted == pc \in {"error", "raised"}

\* C21: within one detection process() call the stages run in the order
\* normalize, summarize context, build prompt, invoke model, validate
\* response, build entity (an Incident only if one is wanted), done: every
\* step either moves to the next stage or, from a running stage, to ERROR;
\* a stage is reached only with the outputs of all earlier stages and no
\* fault; ERROR and DONE are absorbing; after a fault the outputs of the
\* later stages stay absent: the model is not invoked after a fault of
\* normalization, summary or prompt, and nothing is validated or built
\* after a fault of the model.
C21_StagesInOrder ==
    /\ [](agent = "detection" =>
            /\ ~Faulted =>
                /\ fault = "none"
                /\ (StageRank(pc) >= 2) = ("processed_data" \in DOMAIN locals)
                /\ (StageRank(pc) >= 3) = ("context_str" \in DOMAIN locals)
                /\ (StageRank(pc) >= 4) = ("prompt_content" \in DOMAIN locals)
                /\ (StageRank(pc) >= 5) = (response # NotCalled)
                /\ (StageRank(pc) >= 5) = (invocations = 1)
                /\ (StageRank(pc) >= 6) = (result # NotCalled)
                /\ incident # NoIncident => StageRank(pc) >= 7 /\ IncidentWanted(result)
                /\ (StageRank(pc) >= 8) = (envelope # NoEnvelope)
            /\ Faulted =>
                /\ fault # "none"
                /\ "prompt_content" \notin DOMAIN locals => invocations = 0
                /\ invocations = 0 => response = NotCalled
                /\ response = NotCalled => result = NotCalled
                /\ result = NotCalled => incident = NoIncident
                /\ incident = NoIncident)
    /\ [][agent' = "detection" =>
            /\ (Faulted \/ pc = "done") => UNCHANGED vars
            /\ pc' # pc =>
                \/ StageRank(pc) \in 1..6 /\ pc' \in {"error", "raised"}
                \/ ~Faulted /\ pc' \notin {"error", "raised"}
                           /\ StageRank(pc') = StageRank(pc) + 1
            /\ invocations' # invocations => pc = "invoke"
            /\ response' # response => pc = "invoke" /\ pc' = "validate"
            /\ result' # result => pc = "validate" /\ pc' = "entity"
            /\ incident' # incident => pc = "entity" /\ pc' = "package"]_vars

\* C21 witness: the Input Normalizer faulted in a detection call, which
\* ended in ERROR with no summary, no prompt and the model never invoked.
C21_Witness ==
    /\ agent = "detection"
    /\ pc = "error"
    /\ fault = "TypeError"
    /\ locals = NoLocals
    /\ invocations = 0
    /\ response = NotCalled

\* The call is under way: it was made and has not ended.
Running == pc \notin {"idle", "done", "error", "raised"}

\* C22: every process() call of either agent ends, given that the awaited
\* model call returns or fails: a call under way leads to DONE or to ERROR;
\* it ends in exactly one of them: DONE with the success envelope (no error
\* field, no fault), ERROR with the error envelope (error field, a fault),
\* and an ended call stays ended with the envelope it returned.
C22_CallEnds ==
    /\ Running ~> Returned
    /\ [](/\ pc # "raised"
          /\ pc = "done" => fault = "none" /\ "error" \notin DOMAIN envelope.o
          /\ pc = "error" => fault # "none" /\ "error" \in DOMAIN envelope.o
          /\ Running => envelope = NoEnvelope)
    /\ [][Returned => UNCHANGED <<pc, envelope>>]_vars

\* C22 witness: an analysis call went through the model call and ended in
\* DONE with the success envelope.
C22_Witness ==
    /\ agent = "analysis"
    /\ pc = "done"
    /\ invocations = 1
    /\ fault = "none"
    /\ "analysis" \in DOMAIN envelope.o
    /\ "error" \notin DOMAIN envelope.o

(***************************************************************************)
(* The validators applied to every response text                           *)
(***************************************************************************)
InitValidate ==
    /\ fn \in {"_parse_detection_result", "_parse_analysis_result"}
    /\ arg \in Responses
    /\ ret = NotCalled
    /\ PipelineIdle
    /\ ObjectsIdle

CallParseDetection ==
    /\ fn = "_parse_detection_result"
    /\ ret = NotCalled
    /\ ret' = _parse_detection_result(ResponseText(arg))
    /\ UNCHANGED <<fn, arg, alert, calls, jira, pipelineVars>>

CallParseAnalysis ==
    /\ fn = "_parse_analysis_result"
    /\ ret = NotCalled
    /\ ret' = _parse_analysis_result(ResponseText(arg))
    /\ UNCHANGED <<fn, arg, alert, calls, jira, pipelineVars>>

NextValidate == CallParseDetection \/ CallParseAnalysis

SpecValidate == InitValidate /\ [][NextValidate]_vars

\* The detection validator has been applied to arg.
DetectionValidated == fn = "_parse_detection_result" /\ ret # NotCalled

\* The analysis validator has been applied to arg.
AnalysisValidated == fn = "_parse_analysis_result" /\ ret # NotCalled

\* The canonical failure mapping of the detection validator: exactly the
\* four keys, incident_detected false, confidence_score 0.0.
IsDetectionFailureMapping(v) ==
    /\ v.t = "dict"
    /\ DOMAIN v.o = {"incident_detected", "confidence_score", "parse_error", "raw_response"}
    /\ v.o["incident_detected"] = PyBool(FALSE)
    /\ v.o["confidence_score"] = PyNum(0)

\* C3: the detection validator never raises; it returns a mapping for every
\* response text, and the canonical failure mapping whenever the text is
\* malformed JSON, JSON that is not an object, or an object whose
\* confidence_score is not numeric.
C3_ValidatorNeverRaises ==
    DetectionValidated =>
        /\ ~ret.raised
        /\ ret.val.t = "dict"
        /\ LET p == json_loads(ResponseText(arg)) IN
           (\/ p.raised
            \/ p.val.t # "dict"
            \/ ("confidence_score" \in DOMAIN p.val.o
                /\ p.val.o["confidence_score"].t \notin {"num", "bool"}
                /\ ~(p.val.o["confidence_score"].t = "str"
                     /\ p.val.o["confidence_score"].s \in NumberLiterals)))
           => IsDetectionFailureMapping(ret.val)

\* C4: for every response whose payload is not parseable as JSON (malformed,
\* truncated, prose, empty), whatever surrounds it, the detection validator
\* returns a mapping with incident_detected false, confidence_score 0.0 and a
\* non-empty parse_error.
C4_MalformedGivesFailureMapping ==
    (DetectionValidated /\ json_loads(arg.body).raised) =>
        /\ ~ret.raised
        /\ ret.val.t = "dict"
        /\ {"incident_detected", "confidence_score", "parse_error"} \subseteq DOMAIN ret.val.o
        /\ ret.val.o["incident_detected"] = PyBool(FALSE)
        /\ ret.val.o["confidence_score"] = PyNum(0)
        /\ ret.val.o["parse_error"].t = "str"
        /\ ret.val.o["parse_error"].s # ""

\* C4 witness: a truncated response has been validated into a mapping.
C4_Witness ==
    /\ DetectionValidated
    /\ arg.body = SubSeq(ScenarioAText, 1, 5)
    /\ arg.pre = <<>>
    /\ ~ret.raised

\* The confidence_score of the JSON object a response text is, if it is one
\* with a numeric confidence_score; NoScore otherwise.
NoScore == [given |-> FALSE]
GivenScore(text) ==
    LET p == json_loads(text) IN
    IF ~p.raised /\ p.val.t = "dict" /\ "confidence_score" \in DOMAIN p.val.o
       /\ p.val.o["confidence_score"].t = "num"
        THEN [given |-> TRUE, c |-> p.val.o["confidence_score"].n]
        ELSE NoScore

\* C5: every mapping the detection validator returns has confidence_score in
\* [0.0, 1.0]; for a JSON-object response with numeric confidence_score c it
\* is 0.0 for c < 0, 1.0 for c > 1 and c itself otherwise.
C5_ConfidenceClamped ==
    (DetectionValidated /\ ~ret.raised) =>
        /\ ret.val.t = "dict"
        /\ "confidence_score" \in DOMAIN ret.val.o
        /\ ret.val.o["confidence_score"].t = "num"
        /\ ret.val.o["confidence_score"].n >= 0
        /\ ret.val.o["confidence_score"].n <= 100
        /\ LET g == GivenScore(ResponseText(arg)) IN
           g.given =>
               ret.val.o["confidence_score"].n =
                   (IF g.c < 0 THEN 0 ELSE IF g.c > 100 THEN 100 ELSE g.c)

\* C5 witness: a response with confidence_score -0.5 has been validated.
C5_Witness ==
    /\ DetectionValidated
    /\ GivenScore(ResponseText(arg)) = [given |-> TRUE, c |-> -50]
    /\ ~ret.raised
    /\ ret.val.o["confidence_score"] = PyNum(0)

\* C6: a JSON text wrapped in a leading fence marker (with or without the
\* json tag) and a trailing fence marker, with optional whitespace around,
\* validates to exactly what the text alone validates to, in both
\* validators.
C6_FenceTransparent ==
    /\ (DetectionValidated /\ ~json_loads(arg.body).raised
        /\ [pre |-> arg.pre, post |-> arg.post] \in FenceWrappers)
            => ret = _parse_detection_result(arg.body)
    /\ (AnalysisValidated /\ ~json_loads(arg.body).raised
        /\ [pre |-> arg.pre, post |-> arg.post] \in FenceWrappers)
            => ret = _parse_analysis_result(arg.body)

\* The JSON value the validators find in a response text: the text without
\* the whitespace and fence markers the validators drop, parsed.
Parsed(text) == json_loads(strip(StripFences(text)))

\* The response text parses to a JSON object.
IsObjectResponse(text) == ~Parsed(text).raised /\ Parsed(text).val.t = "dict"

\* C23: for a response that parses to a JSON object the detection validator
\* returns a mapping with the keys of the object and the two required keys:
\* incident_detected is false and confidence_score 0.0 when the object lacks
\* them, and every key of the object other than confidence_score keeps the
\* value it has in the object.
C23_ObjectKeysKept ==
    (DetectionValidated /\ IsObjectResponse(ResponseText(arg))) =>
        /\ ~ret.raised
        /\ ret.val.t = "dict"
        /\ DOMAIN ret.val.o =
              DOMAIN Parsed(ResponseText(arg)).val.o \cup {"incident_detected", "confidence_score"}
        /\ \A key \in DOMAIN Parsed(ResponseText(arg)).val.o \ {"confidence_score"} :
              ret.val.o[key] = Parsed(ResponseText(arg)).val.o[key]
        /\ "incident_detected" \notin DOMAIN Parsed(ResponseText(arg)).val.o
              => ret.val.o["incident_detected"] = PyBool(FALSE)
        /\ "confidence_score" \notin DOMAIN Parsed(ResponseText(arg)).val.o
              => ret.val.o["confidence_score"] = PyNum(0)

\* The five sections of an analysis.
FiveSections ==
    {"root_cause_analysis", "impact_assessment", "remediation_plan",
     "prevention_measures", "escalation_recommendation"}

\* A placeholder status object: a mapping with the one key status.
IsPlaceholder(v, status) == v = PyDict([status |-> PyStr(status)])

\* C24: every mapping the analysis validator returns has the five sections
\* and a confidence_score.  For a response that parses to a JSON object a
\* section of the object is kept as it is and an absent one is the
\* placeholder {status: "analysis_incomplete"}; for a response that is not
\* parseable JSON the validator returns the mapping whose five sections are
\* {status: "parse_failed"}, with confidence_score 0.0, a parse_error and
\* the raw_response, and nothing else.
C24_FiveSections ==
    AnalysisValidated =>
        /\ (~ret.raised /\ ret.val.t = "dict") =>
                FiveSections \cup {"confidence_score"} \subseteq DOMAIN ret.val.o
        /\ IsObjectResponse(ResponseText(arg)) =>
                /\ ~ret.raised
                /\ ret.val.t = "dict"
                /\ \A section \in FiveSections :
                      IF section \in DOMAIN Parsed(ResponseText(arg)).val.o
                         THEN ret.val.o[section] = Parsed(ResponseText(arg)).val.o[section]
                         ELSE IsPlaceholder(ret.val.o[section], "analysis_incomplete")
        /\ Parsed(ResponseText(arg)).raised =>
                /\ ~ret.raised
                /\ ret.val.t = "dict"
                /\ DOMAIN ret.val.o =
                      FiveSections \cup {"confidence_score", "parse_error", "raw_response"}
                /\ \A section \in FiveSections :
                      IsPlaceholder(ret.val.o[section], "parse_failed")
                /\ ret.val.o["confidence_score"] = PyNum(0)
                /\ ret.val.o["parse_error"].t = "str"
                /\ ret.val.o["parse_error"].s # ""

\* C24 witness: a response holding only the root cause section has been
\* validated: that section is kept and the escalation section is the
\* placeholder.
C24_Witness ==
    /\ AnalysisValidated
    /\ arg.pre = <<>>
    /\ arg.body = ObjText(Member("root_cause_analysis", SectionText))
    /\ ~ret.raised
    /\ ret.val.o["root_cause_analysis"] = PyDict([primary_cause |-> PyStr("db down")])
    /\ IsPlaceholder(ret.val.o["escalation_recommendation"], "analysis_incomplete")

\* C25: for a response that parses to a JSON object the analysis validator
\* returns confidence_score 0.0 when the object has none, and the given
\* number clamped into [0.0, 1.0] otherwise; every analysis result has a
\* confidence_score that is a number within [0.0, 1.0].
C25_AnalysisConfidenceClamped ==
    (AnalysisValidated /\ ~ret.raised /\ ret.val.t = "dict") =>
        /\ "confidence_score" \in DOMAIN ret.val.o
        /\ ret.val.o["confidence_score"].t = "num"
        /\ ret.val.o["confidence_score"].n >= 0
        /\ ret.val.o["confidence_score"].n <= 100
        /\ IsObjectResponse(ResponseText(arg)) =>
              ret.val.o["confidence_score"].n =
                  (IF GivenScore(strip(StripFences(ResponseText(arg)))).given
                      THEN max(0, min(100, GivenScore(strip(StripFences(ResponseText(arg)))).c))
                      ELSE 0)

\* A validator has returned its failure mapping.
FailureMappingReturned ==
    /\ DetectionValidated \/ AnalysisValidated
    /\ ~ret.raised
    /\ ret.val.t = "dict"
    /\ "parse_error" \in DOMAIN ret.val.o

\* C26: on a parse failure the raw_response of the failure mapping is the
\* response text as the validator received it, unit for unit, with the
\* whitespace and the fence markers around it, in both validators.
C26_RawResponseVerbatim ==
    FailureMappingReturned =>
        /\ "raw_response" \in DOMAIN ret.val.o
        /\ ret.val.o["raw_response"] = PyText(ResponseText(arg))

(***************************************************************************)
(* Incident objects: creation and the mutators                             *)
(***************************************************************************)
\* "tag in self.tags"
HasTag(inc, tag) == \E i \in 1..Len(inc.tags.l) : inc.tags.l[i] = tag

\* An update_status that stores whatever timestamp it is given with resolved.
update_status_StoresNone(inc, status, resolved_at, at) ==
    [inc EXCEPT !.status = status,
                !.updated_at = Datetime(at),
                !.resolved_at = IF status = PyStr("resolved") THEN resolved_at ELSE @]

\* Incident.update_status(status, resolved_at) at clock value at.
update_status(inc, status, resolved_at, at) ==
    [inc EXCEPT !.status = status,
                !.updated_at = Datetime(at),
                !.resolved_at = IF status = PyStr("resolved") /\ Truthy(resolved_at)
                                   THEN resolved_at ELSE @]

\* Incident.add_tag(tag) at clock value at.
add_tag(inc, tag, at) ==
    IF ~HasTag(inc, tag)
        THEN [inc EXCEPT !.tags = PyList(Append(@.l, tag)), !.updated_at = Datetime(at)]
        ELSE inc

\* Incident.set_jira_ticket(ticket_id) at clock value at.
set_jira_ticket(inc, ticket_id, at) ==
    [inc EXCEPT !.jira_ticket_id = ticket_id, !.updated_at = Datetime(at)]

\* Incident.set_slack_thread(thread_id) at clock value at.
set_slack_thread(inc, thread_id, at) ==
    [inc EXCEPT !.slack_thread_id = thread_id, !.updated_at = Datetime(at)]

\* The instants the clock shows when it is read: two seconds of one day, two
\* microseconds in each, and an instant of the next day.
Instants ==
    {Instant(<<2024, 10, 2>>, second, microsecond) :
        second \in {52218, 52219}, microsecond \in {0, 123}}
    \cup {Instant(<<2024, 10, 3>>, 52218, 123)}

Later(at) == {other \in Instants : Before(at, other)}

\* Validated detection results an Incident is built from: incident_detected
\* true with no optional field, the scenario's fields, one tag, the same tag
\* twice.
EntityDetections ==
    {_parse_detection_result(
         ObjText(Member("incident_detected", <<Word("true")>>) \o
                 Member("confidence_score", <<NumLit("0.9")>>) \o rest)).val :
        rest \in {<<>>, ScenarioA, Member("tags", ListText(<<"api">>)),
                  Member("tags", ListText(<<"api", "api">>))}}

\* The tags a caller passes to Incident(...).
DirectTags == {<<>>, <<PyStr("db")>>, <<PyStr("db"), PyStr("db")>>}

\* The arguments callers pass to the mutators.
Statuses == {PyStr("investigating"), PyStr("resolved")}
Tags == {PyStr("api"), PyStr("db")}
Tickets == {PyStr("OPS-1")}
Threads == {PyStr("1696257018.000200")}

InitIncident ==
    /\ fn = "Incident"
    /\ arg = PyNone
    /\ ret = NotCalled
    /\ PipelineIdle
    /\ ObjectsIdle

incidentFrame ==
    <<agent, pc, input_data, context, response, result, envelope, fault,
      invocations, locals, alert, calls, jira>>

\* The Entity Builder builds the Incident from a validated detection result.
CreateFromDetection ==
    /\ fn = "Incident"
    /\ incident = NoIncident
    /\ \E d \in EntityDetections, at \in Instants :
        LET out == _create_incident_from_detection(d.o, DetectionName, at) IN
        /\ ~out.raised
        /\ incident' = out.val
        /\ ret' = out
        /\ arg' = d
        /\ now' = at
    /\ fn' = "_create_incident_from_detection"
    /\ UNCHANGED incidentFrame

\* A caller builds the Incident itself, as the test of the analysis agent does.
CreateDirect ==
    /\ fn = "Incident"
    /\ incident = NoIncident
    /\ \E tags \in DirectTags, at \in Instants :
        LET out == NewIncident(PyStr("INC-20241002-001"),
                               PyStr("Database Connection Failures"),
                               PyStr("Multiple database connection timeouts"),
                               PyStr("high"), PyStr("investigating"), PyStr("web-api"),
                               PyList(<<PyStr("database")>>), PyList(tags), PyMap(<<>>), at)
        IN /\ ~out.raised
           /\ incident' = out.val
           /\ arg' = PyList(tags)
           /\ now' = at
    /\ fn' = "Incident.__init__"
    /\ UNCHANGED <<ret, incidentFrame>>

\* The Entity Builder builds another Incident at a later instant.
CreateAnother ==
    /\ incident # NoIncident
    /\ \E d \in EntityDetections, at \in Later(now) :
        /\ ret' = _create_incident_from_detection(d.o, DetectionName, at)
        /\ arg' = d
        /\ now' = at
    /\ fn' = "_create_incident_from_detection"
    /\ UNCHANGED <<incident, incidentFrame>>

UpdateStatus ==
    /\ incident # NoIncident
    /\ \E status \in Statuses, at \in Later(now), resolved_at \in {PyNone, Datetime(now)} :
        /\ incident' = update_status(incident, status, resolved_at, at)
        /\ arg' = PyList(<<status, resolved_at>>)
        /\ now' = at
    /\ fn' = "update_status"
    /\ UNCHANGED <<ret, incidentFrame>>

AddTag ==
    /\ incident # NoIncident
    /\ \E tag \in Tags, at \in Later(now) :
        /\ incident' = add_tag(incident, tag, at)
        /\ arg' = tag
        /\ now' = at
    /\ fn' = "add_tag"
    /\ UNCHANGED <<ret, incidentFrame>>

SetJiraTicket ==
    /\ incident # NoIncident
    /\ \E ticket_id \in Tickets, at \in Later(now) :
        /\ incident' = set_jira_ticket(incident, ticket_id, at)
        /\ arg' = ticket_id
        /\ now' = at
    /\ fn' = "set_jira_ticket"
    /\ UNCHANGED <<ret, incidentFrame>>

SetSlackThread ==
    /\ incident # NoIncident
    /\ \E thread_id \in Threads, at \in Later(now) :
        /\ incident' = set_slack_thread(incident, thread_id, at)
        /\ arg' = thread_id
        /\ now' = at
    /\ fn' = "set_slack_thread"
    /\ UNCHANGED <<ret, incidentFrame>>

NextIncident ==
    \/ CreateFromDetection
    \/ CreateDirect
    \/ CreateAnother
    \/ UpdateStatus
    \/ AddTag
    \/ SetJiraTicket
    \/ SetSlackThread

SpecIncident == InitIncident /\ [][NextIncident]_vars

\* The Entity Builder has just built a second Incident, at another instant
\* than the first.
BuiltTwice ==
    /\ fn = "_create_incident_from_detection"
    /\ incident # NoIncident
    /\ ret # NotCalled
    /\ ~ret.raised
    /\ ret.val.created_at # incident.created_at

\* C12: Incidents the Entity Builder builds at two different instants have
\* different ids, and an id is "INC-", the date as YYYYMMDD, "-" and the
\* microsecond as six zero-padded digits.
C12_IdsUnique ==
    /\ BuiltTwice => ret.val.id # incident.id
    /\ (BuiltTwice /\ now = Instant(<<2024, 10, 3>>, 52218, 123)) =>
            ret.val.id = [t |-> "str", s |-> "INC-", date |-> <<2, 0, 2, 4, 1, 0, 0, 3>>,
                          dash |-> "-", microsecond |-> <<0, 0, 0, 1, 2, 3>>]

\* An Incident exists.
IncidentExists == fn # "Incident" /\ incident # NoIncident

\* C13: in every state of an Incident, built by the Entity Builder or by a
\* caller and then changed by the mutators, no tag occurs twice in the tag
\* list.
C13_NoDuplicateTags ==
    IncidentExists =>
        \A i, j \in 1..Len(incident.tags.l) :
            i # j => incident.tags.l[i] # incident.tags.l[j]

\* How many times x occurs in the list l.
Occurrences(x, l) == Cardinality({i \in 1..Len(l) : l[i] = x})

\* C14: add_tag is idempotent: a call add_tag(x) leaves the tags present
\* before in their order, with x appended if it was absent; afterwards x
\* occurs exactly once, and a second add_tag(x) leaves the list as the first
\* call left it.
C14_AddTagIdempotent ==
    [][(fn' = "add_tag" /\ IncidentExists) =>
          LET x == arg'
              after == incident'.tags.l
          IN /\ after = IF HasTag(incident, x) THEN incident.tags.l
                                               ELSE Append(incident.tags.l, x)
             /\ Occurrences(x, after) = 1
             /\ add_tag(incident', x, now').tags.l = after]_vars

\* C15: every call of a mutator, whatever its arguments, sets updated_at to
\* the time of the call, so that after any sequence of calls updated_at is
\* the time of the last one.
C15_UpdatedAtRefreshed ==
    (IncidentExists
     /\ fn \in {"update_status", "add_tag", "set_jira_ticket", "set_slack_thread"})
        => incident.updated_at = Datetime(now)

\* C27: resolved_at of an Incident is written by one operation only:
\* update_status(resolved, t) with a timestamp t sets status to resolved and
\* resolved_at to t.  Every other mutator call (update_status to another
\* status with or without a timestamp, update_status(resolved) without a
\* timestamp, add_tag, set_jira_ticket, set_slack_thread) leaves resolved_at
\* as it was, so once set it is never cleared; update_status sets the status
\* it is given whatever the status was.
C27_ResolvedAtWrittenOnce ==
    [][(incident # NoIncident /\ incident' # NoIncident) =>
          /\ fn' = "update_status" =>
                /\ incident'.status = arg'.l[1]
                /\ incident'.resolved_at =
                      IF arg'.l[1] = PyStr("resolved") /\ arg'.l[2] # PyNone
                         THEN arg'.l[2] ELSE incident.resolved_at
          /\ fn' # "update_status" => incident'.resolved_at = incident.resolved_at
          /\ incident.resolved_at # PyNone => incident'.resolved_at # PyNone]_vars

\* C27 witness: an Incident that was resolved with a timestamp has been put
\* back to investigating by update_status with a timestamp, and still has
\* the resolved_at it got.
C27_Witness ==
    /\ IncidentExists
    /\ fn = "update_status"
    /\ arg.l[1] = PyStr("investigating")
    /\ arg.l[2] # PyNone
    /\ incident.status = PyStr("investigating")
    /\ incident.resolved_at # PyNone
    /\ incident.resolved_at # arg.l[2]

(***************************************************************************)
(* JiraIntegration: an Incident synchronized with Jira                     *)
(***************************************************************************)
\* The most tickets the Jira server is let create in one behaviour.
MaxTickets == 2

\* Lines 24-29: severity_priority_map.get(severity, "Medium").
severity_priority_map(severity) ==
    CASE severity = PyStr("critical") -> "Highest"
      [] severity = PyStr("high") -> "High"
      [] severity = PyStr("low") -> "Low"
      [] OTHER -> "Medium"

\* Lines 32-38: status_map.get(status).
status_map(status) ==
    CASE status = PyStr("new") -> "To Do"
      [] status \in {PyStr("in_progress"), PyStr("investigating")} -> "In Progress"
      [] status \in {PyStr("resolved"), PyStr("closed")} -> "Done"
      [] OTHER -> "None"

\* What JIRA(...), create_issue and the transition calls of the jira library
\* come to: they return, raise JIRAError, or raise an exception of the
\* transport underneath.
ConnectOutcomes == {"connected", "JIRAError", "ConnectionError"}
CreateOutcomes == {"created", "JIRAError", "ConnectionError"}
UpdateOutcomes == {"moved", "no transition", "JIRAError", "ConnectionError"}

\* A JiraIntegration and the server behind it: itsm.jira.enabled of the
\* configuration, whether _client holds a client, and the server's issues.
NewJira(enabled) ==
    [configured |-> TRUE, enabled |-> enabled, _client |-> FALSE, issues |-> <<>>]

\* What a method of the integration comes to: the integration and the server
\* after it, and what the method returned or raised.
After(j, out) == [jira |-> j, out |-> out]

\* Lines 41-60, the client property: None when Jira is disabled or JIRA(...)
\* raises JIRAError; the client is created once and kept.
client(j, connect) ==
    IF ~j.enabled THEN After(j, Return(PyNone))
    ELSE IF j._client THEN After(j, Return(PyObject("JIRA")))
    ELSE CASE connect = "connected" ->
                  After([j EXCEPT !._client = TRUE], Return(PyObject("JIRA")))
           [] connect = "JIRAError" -> After(j, Return(PyNone))
           [] OTHER -> After(j, Raise(connect, "connection failed"))

\* "\n* ".join(items): items must be strings; a str is joined character by
\* character.
JoinStars(items) ==
    IF IsListOfStr(items)
        THEN Return(Join(<<Newline, Word("* ")>>, [i \in 1..Len(items.l) |-> <<Fmt(items.l[i])>>]))
    ELSE IF items.t = "str" THEN Return(<<[k |-> "chars", x |-> items, sep |-> "\n* "]>>)
    ELSE Raise("TypeError", "can only join strings")

\* Lines 242-254: the parts that are there only for a truthy field.
ServicePart(inc) ==
    IF Truthy(inc.affected_service)
        THEN << <<>>, <<Word("*Affected Service:* "), Fmt(inc.affected_service)>> >>
        ELSE <<>>

StarsPart(heading, joined) ==
    << <<>>, <<Word(heading)>>, <<Word("* ")>> \o joined.val >>

\* JiraIntegration._format_incident_description.
_format_incident_description(inc) ==
    LET components == JoinStars(inc.affected_components)
        actions == JoinStars(MapGet(inc.metadata, PyStr("recommended_actions"), PyNone))
        hasActions == Truthy(MapGet(inc.metadata, PyStr("recommended_actions"), PyNone))
    IN
    IF Truthy(inc.affected_components) /\ components.raised THEN components
    ELSE IF hasActions /\ actions.raised THEN actions
    ELSE Return(Join(<<Newline>>,
            << <<Word("*Incident ID:* "), Fmt(inc.id)>>,
               <<Word("*Severity:* "), [k |-> "title", x |-> inc.severity]>>,
               <<Word("*Created:* "), Fmt(inc.created_at)>>,
               <<>>,
               <<Word("*Description:*")>>,
               <<Fmt(inc.description)>> >>
            \o ServicePart(inc)
            \o (IF Truthy(inc.affected_components)
                    THEN StarsPart("*Affected Components:*", components) ELSE <<>>)
            \o (IF hasActions THEN StarsPart("*Recommended Actions:*", actions) ELSE <<>>)
            \o << <<>>, <<Word("---")>>,
                  <<Word("_This ticket was created automatically by OpsAiX_")>> >>))

\* Line 88: tag.replace(' ', '_') for each tag.
Labels(tags) == [i \in 1..Len(tags.l) |-> [t |-> "str", s |-> tags.l[i].s, space |-> "_"]]

\* The key the server gives its n-th issue of the project.
IssueKey(n) == [t |-> "str", s |-> "OPS-", n |-> n]

\* Lines 78-91: the issue create_issue makes of issue_dict; it starts in the
\* first status of the workflow.
NewIssue(j, inc, description) ==
    [key |-> IssueKey(Len(j.issues) + 1),
     summary |-> inc.title,
     description |-> description,
     issuetype |-> "Bug",
     priority |-> severity_priority_map(inc.severity),
     labels |-> IF Truthy(inc.tags) THEN Labels(inc.tags) ELSE <<>>,
     status |-> "To Do"]

\* Lines 77-103 with a client at hand.
CreateIssue(j, inc, create) ==
    LET description == _format_incident_description(inc) IN
    IF description.raised THEN After(j, description)
    ELSE CASE create = "created" ->
                  After([j EXCEPT !.issues = Append(@, NewIssue(j, inc, description.val))],
                        Return(IssueKey(Len(j.issues) + 1)))
           [] create = "JIRAError" -> After(j, Return(PyNone))
           [] OTHER -> After(j, Raise(create, "connection failed"))

\* JiraIntegration.create_ticket_from_incident: the key of the new ticket,
\* None without a client or on JIRAError; any other exception leaves it.
create_ticket_from_incident(j, inc, connect, create) ==
    LET c == client(j, connect) IN
    IF c.out.raised THEN c
    ELSE IF ~Truthy(c.out.val) THEN After(c.jira, Return(PyNone))
    ELSE CreateIssue(c.jira, inc, create)

\* The server has an issue of that key.
HasIssue(j, key) == \E n \in 1..Len(j.issues) : j.issues[n].key = key

\* Lines 119-148 with a client at hand: the issue is moved to the status
\* of status_map when the workflow has a transition to it.
Transition(j, ticket_key, incident_status, update) ==
    IF ~HasIssue(j, ticket_key) \/ update = "JIRAError" THEN After(j, Return(PyBool(FALSE)))
    ELSE CASE update = "moved" ->
                  After([j EXCEPT !.issues =
                            [n \in 1..Len(@) |->
                                IF @[n].key = ticket_key
                                    THEN [@[n] EXCEPT !.status = status_map(incident_status)]
                                    ELSE @[n]]],
                        Return(PyBool(TRUE)))
           [] update = "no transition" -> After(j, Return(PyBool(FALSE)))
           [] OTHER -> After(j, Raise(update, "connection failed"))

\* JiraIntegration.update_ticket_status.
update_ticket_status(j, ticket_key, incident_status, connect, update) ==
    LET c == client(j, connect) IN
    IF c.out.raised THEN c
    ELSE IF ~Truthy(c.out.val) THEN After(c.jira, Return(PyBool(FALSE)))
    ELSE Transition(c.jira, ticket_key, incident_status, update)

\* What sync_incident_with_jira comes to: the integration, the Incident and
\* the value returned.
Synced(j, inc, ok) == [jira |-> j, incident |-> inc, out |-> Return(PyBool(ok))]

\* Lines 222-227: the ticket is made and its key stored in the Incident.
SyncCreated(inc, made, at) ==
    IF made.out.raised THEN Synced(made.jira, inc, FALSE)
    ELSE IF Truthy(made.out.val)
        THEN Synced(made.jira, set_jira_ticket(inc, made.out.val, at), TRUE)
    ELSE Synced(made.jira, inc, FALSE)

\* Line 230: the status of the ticket is updated.
SyncUpdated(inc, updated) ==
    IF updated.out.raised THEN Synced(updated.jira, inc, FALSE)
    ELSE Synced(updated.jira, inc, updated.out.val.b)

\* A sync that makes a ticket whether or not the Incident has one.
sync_incident_with_jira_AlwaysCreates(j, inc, connect, create, update, at) ==
    SyncCreated(inc, create_ticket_from_incident(j, inc, connect, create), at)

\* JiraIntegration.sync_incident_with_jira at clock value at; whatever is
\* raised inside is caught at line 232 and False returned.
sync_incident_with_jira(j, inc, connect, create, update, at) ==
    IF ~Truthy(inc.jira_ticket_id)
        THEN SyncCreated(inc, create_ticket_from_incident(j, inc, connect, create), at)
        ELSE SyncUpdated(inc, update_ticket_status(j, inc.jira_ticket_id, inc.status,
                                                   connect, update))

\* The Incidents synchronized: with or without tags, with recommended
\* actions in the metadata that are strings, or a number where the list is
\* expected, and with no ticket id or an empty one.
SyncedTags == {<<>>, <<PyStr("db pool")>>}
SyncedMetadata ==
    {PyMap(<<>>),
     OneItem(PyStr("recommended_actions"), PyList(<<PyStr("Restart the pool")>>)),
     OneItem(PyStr("recommended_actions"), PyNum(300))}
NoTicketIds == {PyNone, PyStr("")}

InitJira ==
    /\ fn = "JiraIntegration"
    /\ arg = PyNone
    /\ ret = NotCalled
    /\ PipelineIdle
    /\ ObjectsIdle

jiraFrame ==
    <<agent, pc, input_data, context, response, result, envelope, fault,
      invocations, locals, alert, calls>>

\* JiraIntegration(config), with Jira enabled in the configuration or not.
NewIntegration ==
    /\ jira = NoJira
    /\ \E enabled \in BOOLEAN : jira' = NewJira(enabled)
    /\ fn' = "JiraIntegration.__init__"
    /\ UNCHANGED <<arg, ret, incident, now, jiraFrame>>

\* A caller builds the Incident to synchronize.
ReportIncident ==
    /\ incident = NoIncident
    /\ \E tags \in SyncedTags, metadata \in SyncedMetadata, ticket_id \in NoTicketIds :
        incident' = [NewIncident(PyStr("INC-20241002-001"),
                                 PyStr("Database Connection Failures"),
                                 PyStr("Multiple database connection timeouts"),
                                 PyStr("high"), PyStr("new"), PyStr("web-api"),
                                 PyList(<<PyStr("database")>>), PyList(tags), metadata,
                                 now).val
                        EXCEPT !.jira_ticket_id = ticket_id]
    /\ fn' = "Incident.__init__"
    /\ UNCHANGED <<arg, ret, jira, now, jiraFrame>>

\* The outcomes create_issue may have while the server is let create tickets.
CreateOutcomesOf(j) ==
    IF Len(j.issues) < MaxTickets THEN CreateOutcomes ELSE CreateOutcomes \ {"created"}

\* The state after a sync: the clock has been read if the Incident changed.
SyncStep(after, at) ==
    /\ jira' = after.jira
    /\ incident' = after.incident
    /\ ret' = after.out
    /\ now' = IF after.incident # incident THEN at ELSE now

\* A caller awaits sync_incident_with_jira(incident); the coroutine has no
\* await that suspends it, so it runs from its first line to its return.
SyncIncident ==
    /\ jira # NoJira
    /\ incident # NoIncident
    /\ \E connect \in ConnectOutcomes, create \in CreateOutcomesOf(jira), update \in UpdateOutcomes :
        SyncStep(sync_incident_with_jira(jira, incident, connect, create, update, Elapse(now)),
                 Elapse(now))
    /\ fn' = "sync_incident_with_jira"
    /\ UNCHANGED <<arg, jiraFrame>>

NextJira ==
    \/ NewIntegration
    \/ ReportIncident
    \/ SyncIncident
    \/ UpdateStatus

SpecJira == InitJira /\ [][NextJira]_vars

\* The step is a sync of the Incident.
SyncTaken == fn' = "sync_incident_with_jira" /\ <<jira, incident, ret, now>>' # <<jira, incident, ret, now>>

\* The tickets the server has made during the step.
TicketsMade == Len(jira'.issues) - Len(jira.issues)

\* The server's issues with their statuses left out.
Unmoved(issues) == [n \in 1..Len(issues) |-> [issues[n] EXCEPT !.status = "any"]]

\* C30: a sync makes a ticket only when the Incident has no jira_ticket_id
\* (None or empty); it changes the Incident only when it has made a ticket,
\* and then it stores the key of the new ticket (set_jira_ticket) and
\* returns True; a sync that returns False leaves every field of the
\* Incident as it was; a sync of an Incident that has a jira_ticket_id
\* makes no ticket and at most moves the status of that ticket; and over
\* any sequence of syncs, with status updates in between,
\* the server never holds more than one ticket made for the Incident.
C30_OneTicketPerIncident ==
    /\ [][SyncTaken =>
            /\ TicketsMade \in {0, 1}
            /\ TicketsMade = 1 =>
                  /\ ~Truthy(incident.jira_ticket_id)
                  /\ ret' = Return(PyBool(TRUE))
                  /\ incident' = set_jira_ticket(incident, jira'.issues[Len(jira'.issues)].key, now')
            /\ TicketsMade = 0 => incident' = incident
            /\ ret' = Return(PyBool(FALSE)) => incident' = incident
            /\ Truthy(incident.jira_ticket_id) =>
                  /\ TicketsMade = 0
                  /\ Unmoved(jira'.issues) = Unmoved(jira.issues)
                  /\ \A n \in 1..Len(jira.issues) :
                        jira'.issues[n] # jira.issues[n] =>
                            jira.issues[n].key = incident.jira_ticket_id]_vars
    /\ [](jira # NoJira => Len(jira.issues) <= 1)

\* The Incident has its ticket, a later sync has failed and another has
\* moved the ticket to the status of the resolved Incident.
C30_Witness ==
    /\ fn = "sync_incident_with_jira"
    /\ jira # NoJira
    /\ incident # NoIncident
    /\ Len(jira.issues) = 1
    /\ incident.jira_ticket_id = jira.issues[1].key
    /\ incident.status = PyStr("resolved")
    /\ jira.issues[1].status = "Done"
    /\ jira.issues[1].labels # <<>>
    /\ ret = Return(PyBool(TRUE))

(***************************************************************************)
(* Alert objects                                                           *)
(***************************************************************************)
\* Alert(...) as a source system's adapter builds it at clock value at: the
\* fields not passed take their defaults (unresolved, unacknowledged, no
\* incident).
NewAlert(title, at) ==
    [t |-> "Alert", title |-> title, severity |-> "critical",
     message |-> "5xx rate above threshold", source |-> "prometheus",
     timestamp |-> Datetime(at), resolved_at |-> PyNone,
     is_resolved |-> FALSE, is_acknowledged |-> FALSE,
     labels |-> PyMap(<<>>), incident_id |-> PyNone]

\* Alert.acknowledge()
acknowledge(a) == [a EXCEPT !.is_acknowledged = TRUE]

\* A resolve that stores its argument as it is.
resolve_NoDefault(a, resolved_at, at) ==
    [a EXCEPT !.is_resolved = TRUE, !.resolved_at = resolved_at]

\* Alert.resolve(resolved_at) at clock value at.
resolve(a, resolved_at, at) ==
    [a EXCEPT !.is_resolved = TRUE,
              !.resolved_at = IF Truthy(resolved_at) THEN resolved_at ELSE Datetime(at)]

\* Alert.associate_incident(incident_id)
associate_incident(a, incident_id) == [a EXCEPT !.incident_id = incident_id]

InitAlert ==
    /\ fn = "Alert"
    /\ arg = PyNone
    /\ ret = NotCalled
    /\ PipelineIdle
    /\ ObjectsIdle

alertFrame ==
    <<ret, agent, pc, input_data, context, response, result, incident, envelope,
      fault, invocations, locals, calls, jira>>

CreateAlert ==
    /\ fn = "Alert"
    /\ alert = NoAlert
    /\ \E at \in Instants :
        /\ alert' = NewAlert("High error rate", at)
        /\ now' = at
    /\ fn' = "Alert.__init__"
    /\ arg' = PyNone
    /\ UNCHANGED alertFrame

Acknowledge ==
    /\ alert # NoAlert
    /\ alert' = acknowledge(alert)
    /\ fn' = "acknowledge"
    /\ arg' = PyNone
    /\ UNCHANGED <<now, alertFrame>>

\* resolve() with no timestamp, or with the timestamp of an instant.
Resolve ==
    /\ alert # NoAlert
    /\ \E at \in Later(now), resolved_at \in {PyNone} \cup {Datetime(i) : i \in Instants} :
        /\ alert' = resolve(alert, resolved_at, at)
        /\ arg' = resolved_at
        /\ now' = at
    /\ fn' = "resolve"
    /\ UNCHANGED alertFrame

AssociateIncident ==
    /\ alert # NoAlert
    /\ \E incident_id \in {PyStr("INC-1"), PyStr("INC-20241002-001")} :
        /\ alert' = associate_incident(alert, incident_id)
        /\ arg' = incident_id
    /\ fn' = "associate_incident"
    /\ UNCHANGED <<now, alertFrame>>

NextAlert == CreateAlert \/ Acknowledge \/ Resolve \/ AssociateIncident

SpecAlert == InitAlert /\ [][NextAlert]_vars

\* C16: for an Alert created unresolved, after any sequence of acknowledge,
\* resolve and associate_incident calls, is_resolved implies that
\* resolved_at is not None; resolve sets resolved_at to the timestamp it is
\* given, or to the time of the call when it is given none; and no
\* operation sets is_resolved back to false.
C16_ResolvedHasTimestamp ==
    /\ [](alert # NoAlert =>
            /\ alert.is_resolved => alert.resolved_at # PyNone
            /\ fn = "resolve" =>
                /\ alert.is_resolved
                /\ alert.resolved_at = IF arg = PyNone THEN Datetime(now) ELSE arg)
    /\ [][(alert # NoAlert /\ alert.is_resolved) => alert'.is_resolved]_vars

\* C16 witness: an Alert has been resolved with no timestamp given, and then
\* acknowledged.
C16_Witness ==
    /\ alert # NoAlert
    /\ fn = "acknowledge"
    /\ alert.is_resolved
    /\ alert.is_acknowledged
    /\ alert.resolved_at = Datetime(now)

(***************************************************************************)
(* Concurrent process() calls on one agent                                 *)
(***************************************************************************)
MaxCalls == 2

CallIds == 1..MaxCalls

\* A call that has not started: the locals of process() are unbound.
IdleCall ==
    [pc |-> "idle", input_data |-> PyNone, context |-> PyNone, messages |-> <<>>,
     answer |-> NotCalled, envelope |-> NoEnvelope, at |-> StartOfCall]

\* What the callers pass and what the model answers while calls overlap.
ConcurrentInputs(a) ==
    IF a = "detection"
       THEN {RawText, OneItem(TupleKey, PyStr("tuple key"))}
       ELSE {IncidentObj(PyMap(<<>>)), OneItem(PyStr("title"), PyStr("API Errors"))}

ConcurrentContexts ==
    {PyNone, OneItem(PyStr("service"), PyStr("web-api"))}

ConcurrentOutcomes(a) ==
    {Return(IF a = "detection" THEN ScenarioAText ELSE ObjText(<<>>)),
     Return(<<Word("No"), Space, Word("incident"), Space, Word("detected")>>),
     Raise("TimeoutError", "Request timed out")}

\* How a call that raised e ends: lines 114-122 (131-139 of the analysis
\* agent).
Failed(a, e, data, at) ==
    IF CaughtByProcess(e.exc)
       THEN [pc |-> "error", envelope |-> ErrorEnvelope(a, e, data, at)]
       ELSE [pc |-> "raised", envelope |-> NoEnvelope]

\* Lines 80-92 (99-114 of the analysis agent): the context summary and the
\* prompt content of the call.
WithContext(a, processed_data, additional_data, context_str) ==
    IF context_str.raised THEN context_str
    ELSE Return(<<Word("template:")>> \o context_str.val \o additional_data.val
                \o processed_data.val)

\* Line 97 of the analysis agent: the additional data, which the detection
\* agent does not have.
WithAdditional(a, ctx, processed_data, additional_data) ==
    IF additional_data.raised THEN additional_data
    ELSE WithContext(a, processed_data, additional_data, _create_context_summary(ctx))

\* Line 77 (94 of the analysis agent): the input is normalized first.
WithNormalized(a, ctx, processed_data) ==
    IF processed_data.raised THEN processed_data
    ELSE WithAdditional(a, ctx, processed_data,
                        IF a = "analysis" THEN _process_additional_data(ctx)
                                          ELSE Return(<<>>))

\* Lines 75-92 (92-114 of the analysis agent): process() from its entry to
\* the await; the prompt content of the call, or what a stage raised.
BeforeAwait(a, data, ctx) ==
    WithNormalized(a, ctx, IF a = "detection" THEN _normalize_input_data(data)
                                              ELSE _normalize_incident_data(data))

\* Lines 104-112 (121-129 of the analysis agent): the envelope is returned.
AfterEntity(a, data, res, built, at) ==
    IF built.raised THEN Failed(a, built, data, at)
    ELSE [pc |-> "done",
          envelope |-> IF a = "detection" THEN DetectionEnvelope(res, built.val, at)
                                          ELSE AnalysisEnvelope(res, data, at)]

\* Lines 100-102: the detection agent builds the Incident if one is wanted.
AfterValidate(a, data, parsed, at) ==
    IF parsed.raised THEN Failed(a, parsed, data, at)
    ELSE AfterEntity(a, data, parsed.val,
                     IF a = "detection" /\ IncidentWanted(parsed.val)
                        THEN _create_incident_from_detection(parsed.val.o, DetectionName, at)
                        ELSE Return(NoIncident),
                     at)

\* Line 97 (119 of the analysis agent): the response is validated.
AfterInvoke(a, data, response_, at) ==
    IF response_.raised THEN Failed(a, response_, data, at)
    ELSE AfterValidate(a, data,
                       IF a = "detection" THEN _parse_detection_result(response_.val)
                                          ELSE _parse_analysis_result(response_.val),
                       at)

\* Lines 94-112 (116-129 of the analysis agent): process() from the await
\* to its return, resumed at clock value at with the outcome of the model.
AfterAwait(a, data, outcome, at) == AfterInvoke(a, data, _invoke_llm(outcome), at)

\* A process() that keeps its locals on the agent object: every call reads
\* the ones the first call bound.
Frame_OnAgent(cs, i) == cs[1]

\* The frame of call i: input_data, context, messages and response are
\* parameters and local variables of the coroutine (lines 62, 77-94), one
\* set per call.
Frame(cs, i) == cs[i]

\* The agent object is built once (BaseAgent.__init__); no call is under way.
InitConcurrent ==
    /\ fn = "process"
    /\ arg = PyNone
    /\ ret = NotCalled
    /\ agent \in {"detection", "analysis"}
    /\ pc = "idle"
    /\ input_data = PyNone
    /\ context = PyNone
    /\ response = NotCalled
    /\ result = NotCalled
    /\ incident = NoIncident
    /\ envelope = NoEnvelope
    /\ fault = "none"
    /\ invocations = 0
    /\ locals = NoLocals
    /\ now = StartOfCall
    /\ alert = NoAlert
    /\ jira = NoJira
    /\ calls = [i \in CallIds |-> IdleCall]

concurrentFrame ==
    <<fn, arg, ret, agent, pc, input_data, context, response, result, incident,
      envelope, fault, locals, alert, jira>>

\* The call i with its parameters bound.
Bound(cs, i, data, ctx) == [cs EXCEPT ![i].input_data = data, ![i].context = ctx]

\* The call i at the end of its first run: ended by what a stage raised at
\* clock value at, or suspended with its messages handed to the model.
Suspend(cs, i, a, out, at) ==
    IF out.raised
       THEN [cs EXCEPT ![i].pc = Failed(a, out, Frame(cs, i).input_data, at).pc,
                       ![i].envelope = Failed(a, out, Frame(cs, i).input_data, at).envelope,
                       ![i].at = at]
       ELSE [cs EXCEPT ![i].pc = "awaiting", ![i].messages = out.val]

\* The call i at its return at clock value at.
Finish(cs, i, end, at) ==
    [cs EXCEPT ![i].pc = end.pc, ![i].envelope = end.envelope, ![i].at = at]

\* A caller awaits process(data, ctx): the coroutine runs to the await of
\* line 94, where it hands its messages to the model and is suspended; a
\* stage that raises before that ends the call with the error envelope.
CallProcess(i) ==
    /\ calls[i].pc = "idle"
    /\ \E data \in ConcurrentInputs(agent), ctx \in ConcurrentContexts :
        calls' = Suspend(Bound(calls, i, data, ctx), i, agent,
                         BeforeAwait(agent, Frame(Bound(calls, i, data, ctx), i).input_data,
                                     Frame(Bound(calls, i, data, ctx), i).context),
                         now)
    /\ UNCHANGED <<concurrentFrame, invocations, now>>

\* The model completes the request of call i, in any order among the
\* requests in flight; time has passed.
ModelAnswers(i) ==
    /\ calls[i].pc = "awaiting"
    /\ \E outcome \in ConcurrentOutcomes(agent) :
        calls' = [calls EXCEPT ![i].pc = "answered", ![i].answer = outcome]
    /\ invocations' = invocations + 1
    /\ now' = Elapse(now)
    /\ UNCHANGED concurrentFrame

\* The event loop resumes call i: it runs from line 94 to its return.
Resume(i) ==
    /\ calls[i].pc = "answered"
    /\ calls' = Finish(calls, i,
                       AfterAwait(agent, Frame(calls, i).input_data,
                                  Frame(calls, i).answer, now),
                       now)
    /\ UNCHANGED <<concurrentFrame, invocations, now>>

NextConcurrent ==
    \/ \E i \in CallIds : CallProcess(i)
    \/ \E i \in CallIds : ModelAnswers(i)
    \/ \E i \in CallIds : Resume(i)

SpecConcurrent == InitConcurrent /\ [][NextConcurrent]_vars

\* The call has returned an envelope to its caller.
CallReturned(c) == c.pc \in {"done", "error"}

\* What a call alone on the agent returns for an input and an outcome of
\* the model, given what its first run came to, at its own clock value.
AloneFrom(out, data, answer, at) ==
    IF out.raised THEN Failed(agent, out, data, at)
                  ELSE AfterAwait(agent, data, answer, at)

\* What a call alone on the agent returns for the input, the context and
\* the outcome of the model of c, with the clock value c read last.
Alone(c) ==
    AloneFrom(BeforeAwait(agent, c.input_data, c.context), c.input_data, c.answer, c.at)

\* C19: concurrent process() calls on one agent, interleaved at the await of
\* the model call in any order, are isolated: the envelope a call returns
\* is the one a call alone on the agent returns for that call's own input,
\* context and model outcome (stamped with the clock value the call itself
\* read), the messages it sent are built from its own input and context,
\* and a step of one call leaves the state of every other call as it was.
C19_CallsIsolated ==
    /\ [](\A i \in CallIds :
            /\ CallReturned(calls[i]) =>
                    /\ calls[i].pc = Alone(calls[i]).pc
                    /\ calls[i].envelope = Alone(calls[i]).envelope
            /\ calls[i].pc \in {"awaiting", "answered"} =>
                    calls[i].messages
                        = BeforeAwait(agent, calls[i].input_data, calls[i].context).val)
    /\ [][\A i, j \in CallIds :
            (i # j /\ calls'[i] # calls[i]) => calls'[j] = calls[j]]_vars

\* C19 witness: two calls overlapped on the detection agent, the second was
\* answered and resumed while the first was still suspended, and the two
\* returned different envelopes: one with an incident, one without.
C19_Witness ==
    /\ agent = "detection"
    /\ calls[1].pc = "done"
    /\ calls[2].pc = "done"
    /\ Before(calls[2].at, calls[1].at)
    /\ calls[1].envelope.o["incident"] # PyNone
    /\ calls[2].envelope.o["incident"] = PyNone

(***************************************************************************)
(* The context renderings applied to every context                         *)
(***************************************************************************)
\* The longest list of logs or alerts a context holds: longer than both caps.
MaxEntries == 12

\* n log lines as the test of the analysis agent passes them: strings.
LogLines(n) == [i \in 1..n |-> PyStr("Redis connection refused")]

\* Structured and unstructured entries in one list.
MixedEntries ==
    <<PyMap(<< <<PyStr("level"), PyStr("ERROR")>>, <<PyStr("message"), PyStr("timeout")>> >>),
      PyStr("High memory usage detected"),
      PyMap(<< <<PyStr("severity"), PyStr("critical")>>, <<PyStr("title"), PyStr("5xx rate")>> >>),
      PyNum(42)>>

\* What a context may hold under one key: <<>> is "key absent".
Under(key, values) == {<<>>} \cup {<< <<PyStr(key), v>> >> : v \in values}

ContextChoices ==
    {PyMap(a \o b \o c \o d \o e) :
        a \in Under("service", {PyStr("web-api"), PyNum(90), PyBool(TRUE), PyNone,
                                PyTuple(<<PyStr("eu"), PyStr("us")>>)}),
        b \in Under("logs", {PyList(<<>>), PyList(LogLines(3)), PyList(LogLines(MaxEntries)),
                             PyList(MixedEntries), PyStr("Redis connection refused")}),
        c \in Under("metrics", {OneItem(PyStr("memory_usage"), PyNum(90)),
                                OneItem(TupleKey, PyNum(0))}),
        d \in Under("alerts", {PyList(<<>>), PyList(MixedEntries \o MixedEntries),
                               OneItem(PyStr("title"), PyStr("5xx rate"))}),
        e \in Under("service_health", {PyMap(<<>>), PyNone})}
    \cup {PyNone, PyList(<<PyStr("web-api")>>), PyList(<<PyStr("logs")>>)}

InitContext ==
    /\ fn \in {"_process_additional_data", "_create_context_summary"}
    /\ arg \in ContextChoices
    /\ ret = NotCalled
    /\ PipelineIdle
    /\ ObjectsIdle

CallProcessAdditional ==
    /\ fn = "_process_additional_data"
    /\ ret = NotCalled
    /\ ret' = _process_additional_data(arg)
    /\ UNCHANGED <<fn, arg, alert, calls, jira, pipelineVars>>

CallContextSummary ==
    /\ fn = "_create_context_summary"
    /\ ret = NotCalled
    /\ ret' = _create_context_summary(arg)
    /\ UNCHANGED <<fn, arg, alert, calls, jira, pipelineVars>>

NextContext == CallProcessAdditional \/ CallContextSummary

SpecContext == InitContext /\ [][NextContext]_vars

\* _process_additional_data has returned a text for the context arg.
AdditionalRendered ==
    fn = "_process_additional_data" /\ ret # NotCalled /\ ~ret.raised

\* The words the four section headers start with.
LogsHeader == [k |-> "word", v |-> "RECENT LOGS"]
MetricsHeader == [k |-> "word", v |-> "METRICS: "]
AlertsHeader == [k |-> "word", v |-> "RELATED ALERTS"]
HealthHeader == [k |-> "word", v |-> "SERVICE HEALTH: "]
Headers == {LogsHeader, MetricsHeader, AlertsHeader, HealthHeader}

\* The unit a numbered line starts with.
LineStart == [k |-> "word", v |-> "  "]

\* The text has the header.
HasHeader(text, header) == \E i \in 1..Len(text) : text[i] = header

\* The numbered lines of the text that stand under the header: after it and
\* before any other header.
LinesUnder(text, header) ==
    {j \in 1..Len(text) :
        /\ text[j] = LineStart
        /\ \E h \in 1..(j - 1) :
              /\ text[h] = header
              /\ \A between \in (h + 1)..(j - 1) : text[between] \notin Headers}

\* The value the context holds under the key, if it is a list.
ListUnder(ctx, key) ==
    IF ctx.t = "map" /\ MapHas(ctx, PyStr(key)) /\ MapItem(ctx, PyStr(key)).t = "list"
        THEN MapItem(ctx, PyStr(key)).l ELSE <<>>

\* The context has the key.
HasKey(ctx, key) == ctx.t = "map" /\ MapHas(ctx, PyStr(key))

\* The units that show a value in full.
ShownInFull(v) == {[k |-> "fmt", x |-> v], [k |-> "strof", x |-> v]}

\* C28: the additional-data rendering shows at most 10 log lines and at most
\* 5 alerts whatever the lengths of the lists; an entry that is not a
\* mapping is shown cut to 200 characters, never in full; a section's header
\* is in the text only if the context has the section and the section has
\* content (at least one line under a list header), so no header stands
\* empty; and a context with none of the four sections gives "No additional
\* data provided.".
C28_AdditionalDataBounded ==
    AdditionalRendered =>
        /\ Cardinality(LinesUnder(ret.val, LogsHeader)) <= 10
        /\ Cardinality(LinesUnder(ret.val, AlertsHeader)) <= 5
        /\ \A key \in {"logs", "alerts"} :
              \A i \in 1..Len(ListUnder(arg, key)) :
                  ListUnder(arg, key)[i].t # "map" =>
                      \A j \in 1..Len(ret.val) :
                          ret.val[j] \notin ShownInFull(ListUnder(arg, key)[i])
        /\ HasHeader(ret.val, LogsHeader) =>
              HasKey(arg, "logs") /\ LinesUnder(ret.val, LogsHeader) # {}
        /\ HasHeader(ret.val, AlertsHeader) =>
              HasKey(arg, "alerts") /\ LinesUnder(ret.val, AlertsHeader) # {}
        /\ HasHeader(ret.val, MetricsHeader) => HasKey(arg, "metrics")
        /\ HasHeader(ret.val, HealthHeader) => HasKey(arg, "service_health")
        /\ (\A key \in SectionKeys : ~HasKey(arg, key)) =>
              ret.val = <<[k |-> "word", v |-> "No additional data provided."]>>

\* _create_context_summary has returned or raised for the context arg.
SummaryCalled == fn = "_create_context_summary" /\ ret # NotCalled

\* The places of the text where an entry starts, and the place of entry i.
EntryStarts(text) == {p \in 1..Len(text) : text[p] = Word("- ")}
EntryStart(text, i) ==
    CHOOSE p \in EntryStarts(text) : Cardinality({q \in EntryStarts(text) : q < p}) = i - 1

\* The entry that starts at p is n units long: the text ends or a new line
\* starts after it.
EntryEnds(text, p, n) ==
    /\ p + n - 1 <= Len(text)
    /\ p + n <= Len(text) => text[p + n] = Newline
    /\ \A q \in p..(p + n - 1) : text[q] # Newline

\* The type names Python gives the values other than scalars.
NameOfType(v) ==
    CASE v.t = "list" -> "list"
      [] v.t = "map" -> "dict"
      [] v.t = "tuple" -> "tuple"
      [] v.t = "None" -> "NoneType"
      [] OTHER -> "object"

\* The number of items of a list or a dict.
ItemCount(v) == IF v.t = "list" THEN Len(v.l) ELSE Len(v.items)

\* Entry i of the summary shows the key and its value as the claim says.
EntryShows(text, i, key, value) ==
    LET p == EntryStart(text, i) IN
    /\ text[p + 1] = Fmt(key)
    /\ text[p + 2] = Word(": ")
    /\ CASE value.t \in {"str", "num", "bool"} ->
              text[p + 3] = Fmt(value) /\ EntryEnds(text, p, 4)
         [] value.t \in {"list", "map"} ->
              /\ text[p + 3] = Word(NameOfType(value))
              /\ text[p + 4] = Word(" with ")
              /\ text[p + 5] = IntUnit(ItemCount(value))
              /\ text[p + 6] = Word(" items")
              /\ EntryEnds(text, p, 7)
         [] OTHER ->
              text[p + 3] = Word(NameOfType(value)) /\ EntryEnds(text, p, 4)

\* C29: the context summary of a null or empty context is the sentence "No
\* additional context provided."; of any other mapping it is the heading
\* and exactly one entry per key, in the order of the keys: a string,
\* number or boolean shown as key and value, a list or a dict as type name
\* and item count, any other value as its type name only, and no value that
\* is not a scalar shown in full anywhere.
C29_ContextSummaryEntries ==
    SummaryCalled /\ (arg.t \in {"None", "map"}) =>
        /\ ~ret.raised
        /\ ~Truthy(arg) => ret.val = <<Word("No additional context provided.")>>
        /\ Truthy(arg) =>
              /\ SubSeq(ret.val, 1, 2) = <<Word("Context:"), Newline>>
              /\ Cardinality(EntryStarts(ret.val)) = Len(arg.items)
              /\ EntryStart(ret.val, 1) = 3
              /\ \A i \in 1..Len(arg.items) :
                    /\ EntryShows(ret.val, i, arg.items[i][1], arg.items[i][2])
                    /\ arg.items[i][2].t \notin {"str", "num", "bool"} =>
                          \A j \in 1..Len(ret.val) :
                              ret.val[j] \notin ShownInFull(arg.items[i][2])

\* A context of five keys with a string, a list longer than ten, a dict and
\* None has been summarized.
C29_Witness ==
    /\ SummaryCalled
    /\ arg.t = "map"
    /\ ~ret.raised
    /\ \E i \in 1..Len(arg.items) : arg.items[i][2].t = "str"
    /\ \E i \in 1..Len(arg.items) : arg.items[i][2].t = "list" /\ Len(arg.items[i][2].l) > 10
    /\ \E i \in 1..Len(arg.items) : arg.items[i][2].t = "map"
    /\ \E i \in 1..Len(arg.items) : arg.items[i][2].t = "None"
    /\ Len(arg.items) = 5

(***************************************************************************)
(* The Input Normalizer applied to every input                             *)
(***************************************************************************)
InitNormalize ==
    /\ fn = "_normalize_input_data"
    /\ arg \in NormalizerInputs
    /\ ret = NotCalled
    /\ PipelineIdle
    /\ ObjectsIdle

CallNormalize ==
    /\ fn = "_normalize_input_data"
    /\ ret = NotCalled
    /\ ret' = _normalize_input_data(arg)
    /\ UNCHANGED <<fn, arg, alert, calls, jira, pipelineVars>>

NextNormalize == CallNormalize

SpecNormalize == InitNormalize /\ [][NextNormalize]_vars

Normalized == fn = "_normalize_input_data" /\ ret # NotCalled

\* The separator the normalizer is to put between the items.
SeparatorText == <<Newline, Newline, Ch("-"), Ch("-"), Ch("-"), Newline, Newline>>

\* text.count(sub): the occurrences of sub in text that do not overlap,
\* counted from position i on: the leftmost one, then those after its end.
RECURSIVE CountFrom(_, _, _)
CountFrom(sub, text, i) ==
    LET found == {j \in i..(Len(text) - Len(sub) + 1) : SubSeq(text, j, j + Len(sub) - 1) = sub}
    IN IF found = {} THEN 0
       ELSE LET first == CHOOSE j \in found : \A other \in found : j <= other
            IN 1 + CountFrom(sub, text, first + Len(sub))

Count(sub, text) == CountFrom(sub, text, 1)

\* The first k of the texts, with the separator between them.
RECURSIVE JoinedUpTo(_, _)
JoinedUpTo(texts, k) ==
    IF k = 0 THEN <<>>
    ELSE IF k = 1 THEN texts[1]
    ELSE JoinedUpTo(texts, k - 1) \o SeparatorText \o texts[k]

\* How many items of the sequence arg the normalizer is to render.
Rendered == IF Len(arg.l) < 50 THEN Len(arg.l) ELSE 50

\* The normalizer has returned a text for the sequence arg.
SequenceNormalized == Normalized /\ arg.t = "list" /\ ~ret.raised

\* The normalization of item i of the sequence arg.
ItemText(i) == _normalize_input_data(arg.l[i]).val

\* For a sequence, the outcome is that of its first 50 items alone, and a
\* text returned is the normalizations of those items, in order, with the
\* separator between them.
FirstFiftyJoined ==
    /\ (Normalized /\ arg.t = "list") =>
            ret = _normalize_input_data(PyList(SubSeq(arg.l, 1, Rendered)))
    /\ SequenceNormalized =>
            ret.val = JoinedUpTo([i \in 1..Rendered |-> ItemText(i)], Rendered)

\* C11: for a sequence of n items the output is the normalizations of the
\* first min(n, 50) items, in order, joined by the separator; the items
\* after the 50th do not influence it; and when no item's normalization
\* holds three hyphens in a row, the output of n >= 1 items holds exactly
\* min(n, 50) - 1 separators (49 for n = 120).
C11_FirstFiftyJoined ==
    /\ FirstFiftyJoined
    /\ (SequenceNormalized /\ Rendered >= 1
         /\ \A i \in 1..Rendered : Count(<<Ch("-"), Ch("-"), Ch("-")>>, ItemText(i)) = 0)
            => Count(SeparatorText, ret.val) = Rendered - 1

\* C11 witness: a sequence of 120 strings, the last 70 of which differ from
\* the first 50, has been normalized into a text with 49 separators.
C11_Witness ==
    /\ SequenceNormalized
    /\ Len(arg.l) = 120
    /\ arg.l[50] # arg.l[51]
    /\ arg.l[51].t = "map"
    /\ Count(SeparatorText, ret.val) = 49

\* C11 as stated: the count of separators is min(n, 50) - 1 whenever no
\* item's normalization holds the separator.
C11_AsStated ==
    /\ FirstFiftyJoined
    /\ (SequenceNormalized /\ Rendered >= 1
         /\ \A i \in 1..Rendered : Count(SeparatorText, ItemText(i)) = 0)
            => Count(SeparatorText, ret.val) = Rendered - 1

\* C10: the Input Normalizer is total: for every input (string, LogEntry,
\* Alert, sequence, mapping with any values and any keys, anything else) it
\* returns a text and never raises.
C10_NormalizerTotal == Normalized => ~ret.raised

====
